---- MODULE Spec2Model ----
(***************************************************************************)
(* Lean.Server.InfoUtils (stage0/stdlib/Lean/Server/InfoUtils.c): the      *)
(* queries over an elaboration InfoTree.  The tree, the persistent arrays  *)
(* that hold the children, and the search, ranking and goal-lookup         *)
(* functions are pure; each query is an action that reads the tree and     *)
(* stores what the function returns.                                       *)
(***************************************************************************)
EXTENDS Integers, Sequences, FiniteSets, TLC

VARIABLES tree, op, arg, result

vars == <<tree, op, arg, result>>

-----------------------------------------------------------------------------
(* Bounds of the model *)

\* constructors (node, context, hole) of a tree of the general family
MaxSize == 4
\* source offsets are 0..MaxPos; queries also ask at MaxPos + 1
MaxPos == 3
\* children of the root in the sibling families
MaxLeaves == 3
\* children of the root in the wide family: two full trie leaves and a tail
MaxLen == 66
\* queries that run on one tree at the same time
MaxQueries == 2

(* Program constants *)

\* log2 of the branching factor of a PersistentArray
InitShift == 5

Branching == 2 ^ InitShift

-----------------------------------------------------------------------------
(* Option, and small helpers on sequences *)

None == <<>>

Some(x) == <<x>>

isSome(o) == o # None

RECURSIVE List_join(_)
List_join(ls) == IF ls = <<>> THEN <<>> ELSE Head(ls) \o List_join(Tail(ls))

Array_swap(as, i, j) ==
  IF i < Len(as) /\ j < Len(as)
  THEN [as EXCEPT ![i + 1] = as[j + 1], ![j + 1] = as[i + 1]]
  ELSE as

-----------------------------------------------------------------------------
(* Syntax, Info, InfoTree *)

Stx(p, t, orig, k) == [pos |-> p, tailPos |-> t, original |-> orig, kind |-> k]

\* Syntax.getPos? stx originalOnly
Syntax_getPos(stx, originalOnly) ==
  IF originalOnly /\ ~stx.original THEN None ELSE stx.pos

\* Syntax.getTailPos? stx originalOnly
Syntax_getTailPos(stx, originalOnly) ==
  IF originalOnly /\ ~stx.original THEN None ELSE stx.tailPos

Syntax_getKind(stx) == stx.kind

\* Info.ofTacticInfo = 0, ofTermInfo = 1, ofMacroExpansionInfo = 2, ofFieldInfo = 3
InfoTags == {"ofTacticInfo", "ofTermInfo", "ofMacroExpansionInfo", "ofFieldInfo"}

MkInfo(tag, stx, sorry) == [tag |-> tag, stx |-> stx, sorry |-> sorry]

Info_stx(i) == i.stx

Info_pos(i) == Syntax_getPos(Info_stx(i), TRUE)

Info_tailPos(i) == Syntax_getTailPos(Info_stx(i), TRUE)

\* Option.get! on a Nat: a panic, then the default of Inhabited Nat
Option_get(o) == IF o = None THEN 0 ELSE o[1]

Expr_isSyntheticSorry(i) == i.sorry

hole == [tag |-> "hole"]

context(ci, t) == [tag |-> "context", ctx |-> ci, child |-> t]

node(i, cs) == [tag |-> "node", info |-> i, children |-> cs]

-----------------------------------------------------------------------------
(* Std.PersistentArray: a trie of arrays (root) and a tail *)

TrieNode(cs) == [leaf |-> FALSE, cs |-> cs]

TrieLeaf(vs) == [leaf |-> TRUE, cs |-> vs]

PersistentArray_empty ==
  [root |-> TrieNode(<<>>), tail |-> <<>>, size |-> 0, shift |-> InitShift, tailOff |-> 0]

PersistentArray_isEmpty(t) == t.size = 0

\* push: into the tail; a full tail is moved into the root as a new leaf
PersistentArray_push(t, a) ==
  LET r == [t EXCEPT !.tail = Append(t.tail, a), !.size = t.size + 1]
  IN  IF Len(r.tail) < Branching
      THEN r
      ELSE [r EXCEPT !.root = TrieNode(Append(r.root.cs, TrieLeaf(r.tail))),
                     !.tail = <<>>, !.tailOff = r.size]

RECURSIVE List_toPersistentArray(_, _)
List_toPersistentArray(l, acc) ==
  IF l = <<>> THEN acc
  ELSE List_toPersistentArray(Tail(l), PersistentArray_push(acc, Head(l)))

toPArray(l) == List_toPersistentArray(l, PersistentArray_empty)

RECURSIVE PersistentArray_toListAux(_)
PersistentArray_toListAux(n) ==
  IF n.leaf THEN n.cs
  ELSE List_join([k \in 1..Len(n.cs) |-> PersistentArray_toListAux(n.cs[k])])

PersistentArray_toList(t) == PersistentArray_toListAux(t.root) \o t.tail

-----------------------------------------------------------------------------
(* Predicates on Info.  A predicate is a closure; the model names the ones *)
(* the queries are run with.                                               *)

\* hoverableInfoAt?: the syntax kinds of the literals, identifiers and
\* interpolated strings
hoverableKinds ==
  {"ident", "strLit", "charLit", "numLit", "scientificLit", "nameLit",
   "fieldIdx", "interpolatedStrLitKind", "interpolatedStrKind"}

Array_contains(as, k) == k \in as

\* the range taken as closed at its end
hoverableInfoAt_lambda1_closed(hoverPos, i) ==
  /\ Info_pos(i) # None
  /\ Info_tailPos(i) # None
  /\ Info_pos(i)[1] <= hoverPos
  /\ hoverPos <= Info_tailPos(i)[1]
  /\ \/ i.tag = "ofFieldInfo"
     \/ /\ i.tag = "ofTermInfo"
        /\ ~Expr_isSyntheticSorry(i)
        /\ Array_contains(hoverableKinds, Syntax_getKind(Info_stx(i)))

\* a missing bound is taken as 0 instead of ruling the info out
hoverableInfoAt_lambda1_defaults(hoverPos, i) ==
  /\ Option_get(Info_pos(i)) <= hoverPos
  /\ hoverPos < Option_get(Info_tailPos(i))
  /\ \/ i.tag = "ofFieldInfo"
     \/ /\ i.tag = "ofTermInfo"
        /\ ~Expr_isSyntheticSorry(i)
        /\ Array_contains(hoverableKinds, Syntax_getKind(Info_stx(i)))

\* fun (i : Info) => ... of hoverableInfoAt?
hoverableInfoAt_lambda1(hoverPos, i) ==
  LET pos == Info_pos(i) IN
  IF pos = None THEN FALSE
  ELSE LET tailPos == Info_tailPos(i) IN
       IF tailPos = None THEN FALSE
       ELSE IF ~(pos[1] <= hoverPos) THEN FALSE
       ELSE IF ~(hoverPos < tailPos[1]) THEN FALSE
       ELSE CASE i.tag = "ofTermInfo" ->
                   IF ~Expr_isSyntheticSorry(i)
                   THEN Array_contains(hoverableKinds, Syntax_getKind(Info_stx(i)))
                   ELSE FALSE
              [] i.tag = "ofFieldInfo" -> TRUE
              [] OTHER -> FALSE

\* fun (i : Info) => ... of smallestTacticStates.tacticLeaves
tacticLeaves_lambda1(i) ==
  IF i.tag = "ofTacticInfo"
  THEN IF Info_pos(i) = None THEN FALSE
       ELSE IF Info_tailPos(i) = None THEN FALSE ELSE TRUE
  ELSE FALSE

PredSet(S) == [kind |-> "set", set |-> S, off |-> 0]

PredHoverable(hoverPos) == [kind |-> "hoverable", set |-> {}, off |-> hoverPos]

PredTacticLeaf == [kind |-> "tacticLeaf", set |-> {}, off |-> 0]

\* fun _ => true
PredAll == [kind |-> "all", set |-> {}, off |-> 0]

\* lean_apply_1(p, info)
ApplyPred(p, i) ==
  CASE p.kind = "set" -> i \in p.set
    [] p.kind = "hoverable" -> hoverableInfoAt_lambda1(p.off, i)
    [] p.kind = "tacticLeaf" -> tacticLeaves_lambda1(i)
    [] p.kind = "all" -> TRUE

-----------------------------------------------------------------------------
(* InfoTree.smallestNode? and the PersistentArray functions specialised    *)
(* to it                                                                   *)

RECURSIVE smallestNode(_, _), PersistentArray_mapMAux(_, _)

\* Array.mapMUnsafe.map over the children of a trie node
Array_mapMUnsafe_map_spec3(p, as) ==
  [k \in 1..Len(as) |-> PersistentArray_mapMAux(p, as[k])]

\* Array.mapMUnsafe.map over the values of a trie leaf
Array_mapMUnsafe_map_spec4(p, as) ==
  [k \in 1..Len(as) |-> smallestNode(p, as[k])]

\* Array.mapMUnsafe.map over the tail
Array_mapMUnsafe_map_spec5(p, as) ==
  [k \in 1..Len(as) |-> smallestNode(p, as[k])]

PersistentArray_mapMAux(p, n) ==
  IF ~n.leaf
  THEN TrieNode(Array_mapMUnsafe_map_spec3(p, n.cs))
  ELSE TrieLeaf(Array_mapMUnsafe_map_spec4(p, n.cs))

PersistentArray_mapM(p, t) ==
  [t EXCEPT !.root = PersistentArray_mapMAux(p, t.root),
            !.tail = Array_mapMUnsafe_map_spec5(p, t.tail)]

\* every child result is kept, none included
foldlMAux_lambda2_pushAll(cs, c) == PersistentArray_push(cs, c)

\* fun cs c? => match c? with | none => cs | some _ => cs.push c?
foldlMAux_lambda2(cs, c) ==
  IF c = None THEN cs ELSE PersistentArray_push(cs, c)

RECURSIVE Array_foldlMUnsafe_fold_spec12(_, _, _, _)
\* the loop is strict: the accumulator is a value before the next step
\* (b1 = b1 makes the evaluation of b1 happen here)
Array_foldlMUnsafe_fold_spec12(as, i, stop, b) ==
  IF i # stop
  THEN LET b1 == foldlMAux_lambda2(b, as[i + 1])
       IN  IF b1 = b1
           THEN Array_foldlMUnsafe_fold_spec12(as, i + 1, stop, b1)
           ELSE b
  ELSE b

Array_foldlMUnsafe_spec11(init, as, start, stop) ==
  IF ~(start < stop) THEN init
  ELSE IF ~(stop <= Len(as)) THEN init
  ELSE Array_foldlMUnsafe_fold_spec12(as, start, stop, init)

RECURSIVE PersistentArray_foldlMAux(_, _), Array_foldlMUnsafe_fold_spec10(_, _, _, _)

Array_foldlMUnsafe_fold_spec10(as, i, stop, b) ==
  IF i # stop
  THEN Array_foldlMUnsafe_fold_spec10(as, i + 1, stop,
                                      PersistentArray_foldlMAux(as[i + 1], b))
  ELSE b

Array_foldlMUnsafe_spec9(init, as, start, stop) ==
  IF ~(start < stop) THEN init
  ELSE IF ~(stop <= Len(as)) THEN init
  ELSE Array_foldlMUnsafe_fold_spec10(as, start, stop, init)

PersistentArray_foldlMAux(n, b) ==
  IF ~n.leaf
  THEN Array_foldlMUnsafe_spec9(b, n.cs, 0, Len(n.cs))
  ELSE Array_foldlMUnsafe_spec11(b, n.cs, 0, Len(n.cs))

\* Array.get with a default
Array_getD(as, i, d) == IF i < Len(as) THEN as[i + 1] ELSE d

RECURSIVE PersistentArray_foldlFromMAux(_, _, _, _)
PersistentArray_foldlFromMAux(n, i, shift, b) ==
  IF ~n.leaf
  THEN LET j == i \div (2 ^ shift)
           c == Array_getD(n.cs, j, TrieNode(<<>>))
           b1 == PersistentArray_foldlFromMAux(c, i % (2 ^ shift), shift - InitShift, b)
       IN  Array_foldlMUnsafe_spec9(b1, n.cs, j + 1, Len(n.cs))
  ELSE Array_foldlMUnsafe_spec11(b, n.cs, i, Len(n.cs))

\* the tail is folded before the root
PersistentArray_foldlM_tailFirst(t, init, start) ==
  PersistentArray_foldlMAux(t.root,
    Array_foldlMUnsafe_spec11(init, t.tail, 0, Len(t.tail)))

PersistentArray_foldlM(t, init, start) ==
  IF start # 0
  THEN IF ~(t.tailOff <= start)
       THEN Array_foldlMUnsafe_spec11(
              PersistentArray_foldlFromMAux(t.root, start, t.shift, init),
              t.tail, 0, Len(t.tail))
       ELSE Array_foldlMUnsafe_spec11(init, t.tail, start - t.tailOff, Len(t.tail))
  ELSE Array_foldlMUnsafe_spec11(PersistentArray_foldlMAux(t.root, init),
                                 t.tail, 0, Len(t.tail))

RECURSIVE PersistentArray_getAux(_, _, _)
PersistentArray_getAux(n, i, shift) ==
  IF ~n.leaf
  THEN PersistentArray_getAux(Array_getD(n.cs, i \div (2 ^ shift), TrieNode(<<>>)),
                              i % (2 ^ shift), shift - InitShift)
  ELSE Array_getD(n.cs, i, None)

\* the last element instead of the i-th
PersistentArray_get_last(t, i) ==
  IF PersistentArray_toList(t) = <<>> THEN None
  ELSE PersistentArray_toList(t)[Len(PersistentArray_toList(t))]

PersistentArray_get(t, i) ==
  IF ~(t.tailOff <= i)
  THEN PersistentArray_getAux(t.root, i, t.shift)
  ELSE Array_getD(t.tail, i - t.tailOff, None)

\* the context is not put back around the result
smallestNode_noRewrap(p, t) ==
  CASE t.tag = "context" -> smallestNode(p, t.child)
    [] t.tag = "node" ->
         LET cs1 == PersistentArray_mapM(p, t.children)
             cs2 == PersistentArray_foldlM(cs1, PersistentArray_empty, 0)
         IN  IF ~PersistentArray_isEmpty(cs2)
             THEN PersistentArray_get(cs2, 0)
             ELSE IF ApplyPred(p, t.info) THEN Some(t) ELSE None
    [] OTHER -> None

\* the node itself is asked before its children
smallestNode_selfFirst(p, t) ==
  CASE t.tag = "context" ->
         LET r == smallestNode(p, t.child) IN
         IF r = None THEN None ELSE Some(context(t.ctx, r[1]))
    [] t.tag = "node" ->
         LET cs1 == PersistentArray_mapM(p, t.children)
             cs2 == PersistentArray_foldlM(cs1, PersistentArray_empty, 0)
         IN  IF ApplyPred(p, t.info) THEN Some(t)
             ELSE IF ~PersistentArray_isEmpty(cs2)
             THEN PersistentArray_get(cs2, 0)
             ELSE None
    [] OTHER -> None

\* the predicate is not asked about the node itself
smallestNode_noTest(p, t) ==
  CASE t.tag = "context" ->
         LET r == smallestNode(p, t.child) IN
         IF r = None THEN None ELSE Some(context(t.ctx, r[1]))
    [] t.tag = "node" ->
         LET cs1 == PersistentArray_mapM(p, t.children)
             cs2 == PersistentArray_foldlM(cs1, PersistentArray_empty, 0)
         IN  IF ~PersistentArray_isEmpty(cs2)
             THEN PersistentArray_get(cs2, 0)
             ELSE Some(t)
    [] OTHER -> None

smallestNode(p, t) ==
  CASE t.tag = "context" ->
         LET r == smallestNode(p, t.child) IN
         IF r = None THEN None ELSE Some(context(t.ctx, r[1]))
    [] t.tag = "node" ->
         LET cs1 == PersistentArray_mapM(p, t.children)
             cs2 == PersistentArray_foldlM(cs1, PersistentArray_empty, 0)
         IN  IF ~PersistentArray_isEmpty(cs2)
             THEN PersistentArray_get(cs2, 0)
             ELSE IF ApplyPred(p, t.info) THEN Some(t) ELSE None
    [] OTHER -> None

-----------------------------------------------------------------------------
(* InfoTree.smallestNodes *)

RECURSIVE smallestNodes(_, _)

\* the results are passed on without the context
List_map_spec1_unwrapped(ci, ts) == ts

\* List.map (InfoTree.context ci) ts
List_map_spec1(ci, ts) == [k \in 1..Len(ts) |-> context(ci, ts[k])]

\* the children are visited last to first
List_map_spec2_reversed(p, cs) ==
  [k \in 1..Len(cs) |-> smallestNodes(p, cs[Len(cs) + 1 - k])]

\* List.map (smallestNodes p) cs
List_map_spec2(p, cs) == [k \in 1..Len(cs) |-> smallestNodes(p, cs[k])]

\* a matching node is listed after the matches below it
smallestNodes_withSelf(p, t) ==
  CASE t.tag = "context" -> List_map_spec1(t.ctx, smallestNodes(p, t.child))
    [] t.tag = "node" ->
         List_join(List_map_spec2(p, PersistentArray_toList(t.children)))
         \o (IF ApplyPred(p, t.info) THEN <<t>> ELSE <<>>)
    [] OTHER -> <<>>

smallestNodes(p, t) ==
  CASE t.tag = "context" -> List_map_spec1(t.ctx, smallestNodes(p, t.child))
    [] t.tag = "node" ->
         LET cs == List_join(List_map_spec2(p, PersistentArray_toList(t.children)))
         IN  IF cs # <<>> THEN cs
             ELSE IF ApplyPred(p, t.info) THEN <<t>> ELSE <<>>
    [] OTHER -> <<>>

-----------------------------------------------------------------------------
(* InfoTree.smallestInfo? and InfoTree.hoverableInfoAt? *)

Nat_sub(a, b) == IF a >= b THEN a - b ELSE 0

\* a bare node is ranked too, as if it carried a context
RECURSIVE List_filterMap_smallestInfo_bare(_)
List_filterMap_smallestInfo_bare(ts) ==
  IF ts = <<>> THEN <<>>
  ELSE LET t == Head(ts)
           n == IF t.tag = "context" THEN t.child ELSE t
       IN  IF n.tag = "node"
           THEN <<[key |-> Nat_sub(Option_get(Info_tailPos(n.info)),
                                   Option_get(Info_pos(n.info))),
                   ci |-> IF t.tag = "context" THEN t.ctx ELSE "c1",
                   info |-> n.info]>>
                \o List_filterMap_smallestInfo_bare(Tail(ts))
           ELSE List_filterMap_smallestInfo_bare(Tail(ts))

\* a node under several contexts is ranked with the innermost of them
RECURSIVE List_filterMap_smallestInfo_nested(_)
List_filterMap_smallestInfo_nested(ts) ==
  IF ts = <<>> THEN <<>>
  ELSE LET t == Head(ts) IN
       IF t.tag = "context"
       THEN IF t.child.tag = "node"
            THEN <<[key |-> Nat_sub(Option_get(Info_tailPos(t.child.info)),
                                    Option_get(Info_pos(t.child.info))),
                    ci |-> t.ctx, info |-> t.child.info]>>
                 \o List_filterMap_smallestInfo_nested(Tail(ts))
            ELSE List_filterMap_smallestInfo_nested(<<t.child>> \o Tail(ts))
       ELSE List_filterMap_smallestInfo_nested(Tail(ts))

\* | context ci (node i _) => some (i.tailPos?.get! - i.pos?.get!, ci, i)
\* | _ => none
RECURSIVE List_filterMap_smallestInfo(_)
List_filterMap_smallestInfo(ts) ==
  IF ts = <<>> THEN <<>>
  ELSE LET t == Head(ts) IN
       IF t.tag = "context"
       THEN IF t.child.tag = "node"
            THEN LET i == t.child.info
                     tailPos == Info_tailPos(i)
                     pos == Info_pos(i)
                 IN  <<[key |-> Nat_sub(Option_get(tailPos), Option_get(pos)),
                        ci |-> t.ctx, info |-> i]>>
                     \o List_filterMap_smallestInfo(Tail(ts))
            ELSE List_filterMap_smallestInfo(Tail(ts))
       ELSE List_filterMap_smallestInfo(Tail(ts))

\* the comparison the other way round: the widest entry is kept
Array_getMax_lambda1_widest(best, a) == IF a.key > best.key THEN a ELSE best

\* fun best a => if best.1 > a.1 then a else best
Array_getMax_lambda1(best, a) == IF a.key < best.key THEN a ELSE best

RECURSIVE Array_foldl_getMax(_, _, _, _)
Array_foldl_getMax(b, as, i, stop) ==
  IF i < stop /\ stop <= Len(as)
  THEN Array_foldl_getMax(Array_getMax_lambda1(b, as[i + 1]), as, i + 1, stop)
  ELSE b

Array_getMax(as) ==
  IF ~(0 < Len(as)) THEN None
  ELSE Some(Array_foldl_getMax(as[1], as, 1, Len(as)))

smallestInfo(p, t) ==
  LET ts == smallestNodes(p, t)
      infos == List_filterMap_smallestInfo(ts)
      m == Array_getMax(infos)
  IN  IF m = None THEN None
      ELSE Some([ci |-> m[1].ci, info |-> m[1].info])

hoverableInfoAt(t, hoverPos) == smallestInfo(PredHoverable(hoverPos), t)

-----------------------------------------------------------------------------
(* InfoTree.smallestTacticStates and InfoTree.goalsAt? *)

tacticLeaves(t) == smallestNodes(PredTacticLeaf, t)

\* | context ci (node i@(Info.ofTacticInfo ti) _) => some (i.pos?.get!, ci, ti)
\* | _ => none
RECURSIVE List_filterMap_smallestTacticStates(_)
List_filterMap_smallestTacticStates(ts) ==
  IF ts = <<>> THEN <<>>
  ELSE LET t == Head(ts) IN
       IF t.tag = "context"
       THEN IF t.child.tag = "node"
            THEN IF t.child.info.tag = "ofTacticInfo"
                 THEN <<[key |-> Option_get(Info_pos(t.child.info)),
                         ci |-> t.ctx, info |-> t.child.info]>>
                      \o List_filterMap_smallestTacticStates(Tail(ts))
                 ELSE List_filterMap_smallestTacticStates(Tail(ts))
            ELSE List_filterMap_smallestTacticStates(Tail(ts))
       ELSE List_filterMap_smallestTacticStates(Tail(ts))

\* fun a b => a.1 < b.1
smallestTacticStates_lambda1(a, b) == a.key < b.key

\* the default of Inhabited (Nat x ContextInfo x TacticInfo)
instInhabitedEntry ==
  [key |-> 0, ci |-> "default",
   info |-> MkInfo("ofTacticInfo", Stx(None, None, FALSE, "missing"), FALSE)]

Array_get(as, i) == Array_getD(as, i, instInhabitedEntry)

RECURSIVE Array_qpartition_loop(_, _, _, _, _)
Array_qpartition_loop(hi, pivot, as, i, j) ==
  IF ~(j < hi)
  THEN <<i, Array_swap(as, i, hi)>>
  ELSE IF ~smallestTacticStates_lambda1(Array_get(as, j), pivot)
       THEN Array_qpartition_loop(hi, pivot, as, i, j + 1)
       ELSE Array_qpartition_loop(hi, pivot, Array_swap(as, i, j), i + 1, j + 1)

RECURSIVE Array_qsort_sort(_, _, _)

\* only the part before the pivot is sorted on
Array_qsort_sort_leftOnly(as, low, high) ==
  IF ~(low < high) THEN as
  ELSE LET pivot == Array_get(as, high)
           r == Array_qpartition_loop(high, pivot, as, low, low)
       IN  IF high <= r[1] THEN r[2]
           ELSE Array_qsort_sort(r[2], low, r[1])

Array_qsort_sort(as, low, high) ==
  IF ~(low < high) THEN as
  ELSE LET mid == (low + high) \div 2
           as1 == IF smallestTacticStates_lambda1(Array_get(as, mid), Array_get(as, low))
                  THEN Array_swap(as, low, mid) ELSE as
           as2 == IF smallestTacticStates_lambda1(Array_get(as1, high), Array_get(as1, low))
                  THEN Array_swap(as1, low, high) ELSE as1
           as3 == IF smallestTacticStates_lambda1(Array_get(as2, mid), Array_get(as2, high))
                  THEN Array_swap(as2, mid, high) ELSE as2
           pivot == Array_get(as3, high)
           r == Array_qpartition_loop(high, pivot, as3, low, low)
       IN  IF high <= r[1] THEN r[2]
           ELSE Array_qsort_sort(Array_qsort_sort(r[2], low, r[1]), r[1] + 1, high)

smallestTacticStates(t) ==
  LET ts == List_filterMap_smallestTacticStates(tacticLeaves(t))
  IN  Array_qsort_sort(ts, 0, Nat_sub(Len(ts), 1))

\* the intervals run from tailPos to the next tailPos; the last is empty
goalsAt_extent_tailPos(ts, i) ==
  LET e == ts[i + 1]
      tp == Option_get(Syntax_getTailPos(e.info.stx, FALSE))
  IN  IF ~(i + 1 < Len(ts))
      THEN <<tp, tp>>
      ELSE <<tp, Option_get(Syntax_getTailPos(ts[i + 2].info.stx, FALSE))>>

\* fun i (p, _, ti) =>
\*   (p, if i+1 < ts.size then ts[i+1].1 else ti.stx.getTailPos?.get!)
goalsAt_extent(ts, i) ==
  LET e == ts[i + 1] IN
  IF ~(i + 1 < Len(ts))
  THEN <<e.key, Option_get(Syntax_getTailPos(e.info.stx, FALSE))>>
  ELSE <<e.key, ts[i + 2].key>>

Array_mapIdx_goalsAt(ts) == [k \in 1..Len(ts) |-> goalsAt_extent(ts, k - 1)]

\* the interval taken as closed at its end
goalsAt_lambda1_closed(hoverPos, x) ==
  IF ~(x[1] <= hoverPos) THEN FALSE ELSE hoverPos <= x[2]

\* the interval has no lower end
goalsAt_lambda1_noLower(hoverPos, x) == hoverPos < x[2]

\* fun (p, tp) => p <= hoverPos && hoverPos < tp
goalsAt_lambda1(hoverPos, x) ==
  IF ~(x[1] <= hoverPos) THEN FALSE ELSE hoverPos < x[2]

RECURSIVE Array_findIdx_loop(_, _, _)
Array_findIdx_loop(as, hoverPos, j) ==
  IF j < Len(as)
  THEN IF goalsAt_lambda1(hoverPos, as[j + 1]) THEN Some(j)
       ELSE Array_findIdx_loop(as, hoverPos, j + 1)
  ELSE None

goalsAt(t, hoverPos) ==
  LET ts == smallestTacticStates(t)
      extents == Array_mapIdx_goalsAt(ts)
      idx == Array_findIdx_loop(extents, hoverPos, 0)
  IN  IF idx = None THEN None
      ELSE LET e == Array_get(ts, idx[1]) IN Some([ci |-> e.ci, info |-> e.info])

-----------------------------------------------------------------------------
(* The trees the queries are run on.  The elaborator builds the tree once; *)
(* the queries only read it.                                               *)

Ctxs == {"c1", "c2"}

Offsets == 0..(MaxPos + 1)

StxKindOf(tag) == IF tag = "ofTermInfo" THEN "ident" ELSE "tacticSeq"

\* a tactic and a term on the same source range
GenInfos ==
  {MkInfo(tag, Stx(Some(0), Some(2), TRUE, StxKindOf(tag)), FALSE) :
     tag \in {"ofTacticInfo", "ofTermInfo"}}

\* every tree of exactly n constructors, and every forest of total size n
RECURSIVE TreesOfSize(_), ForestsOfSize(_)

TreesOfSize(n) ==
  IF n = 1
  THEN {hole} \cup {node(i, PersistentArray_empty) : i \in GenInfos}
  ELSE {context(ci, t) : ci \in Ctxs, t \in TreesOfSize(n - 1)}
       \cup {node(i, toPArray(cs)) : i \in GenInfos, cs \in ForestsOfSize(n - 1)}

ForestsOfSize(n) ==
  IF n = 0 THEN {<<>>}
  ELSE UNION {{<<t>> \o f : t \in TreesOfSize(j), f \in ForestsOfSize(n - j)} :
                j \in 1..n}

GenTrees == UNION {TreesOfSize(n) : n \in 1..MaxSize}

\* source ranges of a leaf: one or two characters wide, or one bound
\* missing, or synthetic syntax
RangeOpts ==
  UNION {{<<Some(a), Some(b), TRUE>> : b \in {c \in (a + 1)..MaxPos : c <= a + 2}} :
           a \in 0..MaxPos}
  \cup {<<None, Some(MaxPos), TRUE>>, <<Some(0), None, TRUE>>,
        <<Some(0), Some(MaxPos), FALSE>>}

LeafInfo(tag, r) == MkInfo(tag, Stx(r[1], r[2], r[3], StxKindOf(tag)), FALSE)

RootInfo(tag) == MkInfo(tag, Stx(Some(0), Some(MaxPos), TRUE, StxKindOf(tag)), FALSE)

LeafCtx(k) == IF k % 2 = 1 THEN "c1" ELSE "c2"

\* a root with n leaves of one kind: the root under one context, or each
\* leaf under its own context
SiblingTree(tag, rs, underRoot) ==
  IF underRoot
  THEN context("c1", node(RootInfo(tag),
         toPArray([k \in 1..Len(rs) |-> node(LeafInfo(tag, rs[k]), PersistentArray_empty)])))
  ELSE node(RootInfo(tag),
         toPArray([k \in 1..Len(rs) |->
                     context(LeafCtx(k), node(LeafInfo(tag, rs[k]), PersistentArray_empty))]))

LeafRanges == UNION {[1..n -> RangeOpts] : n \in 1..MaxLeaves}

\* a tactic block under the context of its command; terms that each carry
\* a context of their own
SiblingTrees ==
  {SiblingTree("ofTacticInfo", rs, TRUE) : rs \in LeafRanges}
  \cup {SiblingTree("ofTermInfo", rs, FALSE) : rs \in LeafRanges}

Trees == GenTrees \cup SiblingTrees

\* the predicates the generic searches are run with
Preds == {PredSet(S) : S \in SUBSET GenInfos} \cup {PredTacticLeaf, PredAll}

NoArg == [kind |-> "none", set |-> {}, off |-> 0]

ArgOffset(o) == [kind |-> "offset", set |-> {}, off |-> o]

-----------------------------------------------------------------------------
(* The queries *)

Init ==
  /\ tree \in Trees
  /\ op = "none"
  /\ arg = NoArg
  /\ result = None

SmallestNode ==
  /\ op = "none"
  /\ \E p \in Preds :
       /\ op' = "smallestNode"
       /\ arg' = p
       /\ result' = smallestNode(p, tree)
  /\ UNCHANGED tree

SmallestNodes ==
  /\ op = "none"
  /\ \E p \in Preds :
       /\ op' = "smallestNodes"
       /\ arg' = p
       /\ result' = smallestNodes(p, tree)
  /\ UNCHANGED tree

SmallestInfo ==
  /\ op = "none"
  /\ \E p \in Preds :
       /\ op' = "smallestInfo"
       /\ arg' = p
       /\ result' = smallestInfo(p, tree)
  /\ UNCHANGED tree

HoverableInfoAt ==
  /\ op = "none"
  /\ \E o \in Offsets :
       /\ op' = "hoverableInfoAt"
       /\ arg' = ArgOffset(o)
       /\ result' = hoverableInfoAt(tree, o)
  /\ UNCHANGED tree

SmallestTacticStates ==
  /\ op = "none"
  /\ op' = "smallestTacticStates"
  /\ arg' = NoArg
  /\ result' = smallestTacticStates(tree)
  /\ UNCHANGED tree

GoalsAt ==
  /\ op = "none"
  /\ \E o \in Offsets :
       /\ op' = "goalsAt"
       /\ arg' = ArgOffset(o)
       /\ result' = goalsAt(tree, o)
  /\ UNCHANGED tree

\* the caller takes the result; the tree stays for the next query
Return ==
  /\ op # "none"
  /\ op' = "none"
  /\ arg' = NoArg
  /\ result' = None
  /\ UNCHANGED tree

Next ==
  \/ SmallestNode
  \/ SmallestNodes
  \/ SmallestInfo
  \/ HoverableInfoAt
  \/ SmallestTacticStates
  \/ GoalsAt
  \/ Return

Spec == Init /\ [][Next]_vars

-----------------------------------------------------------------------------
(* Positions in a tree.  A position is the sequence of child indices from   *)
(* the root; a context has one child.  These describe the tree itself,      *)
(* without running a search.                                                *)

Kids(t) ==
  CASE t.tag = "context" -> <<t.child>>
    [] t.tag = "node" -> PersistentArray_toList(t.children)
    [] OTHER -> <<>>

RECURSIVE Paths(_)
Paths(t) ==
  {<<>>} \cup UNION {{<<k>> \o q : q \in Paths(Kids(t)[k])} : k \in 1..Len(Kids(t))}

RECURSIVE Subtree(_, _)
Subtree(t, q) == IF q = <<>> THEN t ELSE Subtree(Kids(t)[Head(q)], Tail(q))

NodePaths(t) == {q \in Paths(t) : Subtree(t, q).tag = "node"}

IsPrefix(a, b) == Len(a) <= Len(b) /\ SubSeq(b, 1, Len(a)) = a

ProperPrefix(a, b) == IsPrefix(a, b) /\ a # b

RECURSIVE LexLess(_, _)
LexLess(a, b) ==
  IF b = <<>> THEN FALSE
  ELSE IF a = <<>> THEN TRUE
  ELSE IF Head(a) # Head(b) THEN Head(a) < Head(b)
  ELSE LexLess(Tail(a), Tail(b))

\* a node before its children, children left to right
PreOrderBefore(a, b) == LexLess(a, b)

\* children left to right, then their node
PostOrderBefore(a, b) ==
  a # b /\ (ProperPrefix(b, a) \/ (LexLess(a, b) /\ ~IsPrefix(a, b)))

\* the nodes whose info satisfies p
MatchPaths(p, t) == {q \in NodePaths(t) : ApplyPred(p, Subtree(t, q).info)}

\* ... and that have no proper descendant whose info satisfies p
DeepestPaths(p, t) ==
  LET M == MatchPaths(p, t)
  IN  {q \in M : \A r \in M : ~ProperPrefix(q, r)}

\* a set of positions in document order
RECURSIVE SortPaths(_)
SortPaths(S) ==
  IF S = {} THEN <<>>
  ELSE LET m == CHOOSE m \in S : \A r \in S : r = m \/ LexLess(m, r)
       IN  <<m>> \o SortPaths(S \ {m})

RECURSIVE stripContexts(_)
stripContexts(t) == IF t.tag = "context" THEN stripContexts(t.child) ELSE t

\* the contexts strictly above position q, outermost first
RECURSIVE CtxsOnPath(_, _)
CtxsOnPath(t, q) ==
  IF q = <<>> THEN <<>>
  ELSE (IF t.tag = "context" THEN <<t.ctx>> ELSE <<>>)
       \o CtxsOnPath(Kids(t)[Head(q)], Tail(q))

RECURSIVE Rewrap(_, _)
Rewrap(cs, n) == IF cs = <<>> THEN n ELSE context(Head(cs), Rewrap(Tail(cs), n))

RECURSIVE Flatten(_, _)
Flatten(ss, k) == IF k > Len(ss) THEN <<>> ELSE ss[k] \o Flatten(ss, k + 1)

\* the result of a search at position q: the stored one at the root
FoundAt(q) == IF q = <<>> THEN result ELSE smallestNode(arg, Subtree(tree, q))

ListedAt(q) == IF q = <<>> THEN result ELSE smallestNodes(arg, Subtree(tree, q))

-----------------------------------------------------------------------------
(* C1: smallestInfo? *)

C1_Pred == IF op = "hoverableInfoAt" THEN PredHoverable(arg.off) ELSE arg

\* the results of smallestNodes that smallestInfo? ranks
C1_Candidates ==
  SelectSeq(smallestNodes(C1_Pred, tree),
            LAMBDA t : t.tag = "context" /\ t.child.tag = "node")

\* tailPos - pos, a missing bound read as 0, the difference cut off at 0
Width(c) ==
  LET stx == c.child.info.stx
      lo == IF stx.original /\ stx.pos # None THEN stx.pos[1] ELSE 0
      hi == IF stx.original /\ stx.tailPos # None THEN stx.tailPos[1] ELSE 0
  IN  IF hi >= lo THEN hi - lo ELSE 0

FirstSmallest(cs) ==
  CHOOSE k \in 1..Len(cs) :
    /\ \A j \in 1..Len(cs) : Width(cs[k]) <= Width(cs[j])
    /\ \A j \in 1..(k - 1) : Width(cs[j]) # Width(cs[k])

FirstLargest(cs) ==
  CHOOSE k \in 1..Len(cs) :
    /\ \A j \in 1..Len(cs) : Width(cs[k]) >= Width(cs[j])
    /\ \A j \in 1..(k - 1) : Width(cs[j]) # Width(cs[k])

AsPair(c) == [ci |-> c.ctx, info |-> c.child.info]

\* C1 as the specification states it: smallestInfo? returns the candidate of
\* the largest width tailPos - pos, the first in find_all order among those
\* of that width.
C1_LargestWidthFirst ==
  op \in {"smallestInfo", "hoverableInfoAt"} =>
    LET cs == C1_Candidates
    IN  result = IF cs = <<>> THEN None ELSE Some(AsPair(cs[FirstLargest(cs)]))

\* C1, amended: smallestInfo? returns, among the results of smallestNodes of
\* the shape context ci (node info _), the (ci, info) of the smallest width
\* tailPos - pos (a missing bound read as 0, the difference cut off at 0),
\* the first in smallestNodes order among those of that width; none when
\* there is no such result.
C1_SmallestWidthFirst ==
  op \in {"smallestInfo", "hoverableInfoAt"} =>
    LET cs == C1_Candidates
    IN  result = IF cs = <<>> THEN None ELSE Some(AsPair(cs[FirstSmallest(cs)]))

\* three candidates, a wider one first and then two of the smallest width
C1_Witness ==
  /\ op = "smallestInfo"
  /\ LET cs == C1_Candidates
     IN  /\ Len(cs) = 3
         /\ Width(cs[1]) > Width(cs[2])
         /\ Width(cs[2]) = Width(cs[3])
         /\ cs[2] # cs[3]
         /\ result = Some(AsPair(cs[2]))

-----------------------------------------------------------------------------
(* C2: smallestNode? on a node and on a hole *)

FirstSome(os) ==
  IF \E k \in 1..Len(os) : os[k] # None
  THEN os[CHOOSE k \in 1..Len(os) : os[k] # None /\ \A j \in 1..(k - 1) : os[j] = None]
  ELSE None

\* C2: smallestNode? on a node returns the result of the lowest-indexed
\* child whose result is some; when every child gives none it returns the
\* node itself, with all its children, if p holds of its info and none if
\* not; on a hole it returns none.
C2_NodeFirstSomeChild ==
  op = "smallestNode" =>
    \A q \in Paths(tree) :
      LET t == Subtree(tree, q)
          kids == Kids(t)
          rs == [k \in 1..Len(kids) |-> smallestNode(arg, kids[k])]
      IN  /\ t.tag = "node" =>
               FoundAt(q) = IF \E k \in 1..Len(rs) : rs[k] # None THEN FirstSome(rs)
                            ELSE IF ApplyPred(arg, t.info) THEN Some(t) ELSE None
          /\ t.tag = "hole" => FoundAt(q) = None

\* the first child gives none, the second gives some, the node itself matches
C2_Witness ==
  /\ op = "smallestNode"
  /\ tree.tag = "node"
  /\ ApplyPred(arg, tree.info)
  /\ LET kids == Kids(tree)
     IN  /\ Len(kids) >= 2
         /\ smallestNode(arg, kids[1]) = None
         /\ smallestNode(arg, kids[2]) # None
         /\ result = smallestNode(arg, kids[2])

-----------------------------------------------------------------------------
(* C3: smallestNode? on a context *)

\* C3: smallestNode? on context ci t is none when the search of t is none
\* and some (context ci r) when the search of t is some r; so the result is a
\* node of the tree inside every context on the path from the root to it, in
\* nesting order; and context ci (node i []) with p matching i is returned
\* as it is.
C3_ContextRewrap ==
  op = "smallestNode" =>
    /\ \A q \in Paths(tree) :
         LET t == Subtree(tree, q) IN
         t.tag = "context" =>
           LET c == smallestNode(arg, t.child)
           IN  FoundAt(q) = IF c = None THEN None ELSE Some(context(t.ctx, c[1]))
    /\ result # None =>
         \E q \in NodePaths(tree) :
           result[1] = Rewrap(CtxsOnPath(tree, q), Subtree(tree, q))
    /\ \A ci \in Ctxs, i \in GenInfos :
         (tree = context(ci, node(i, PersistentArray_empty)) /\ ApplyPred(arg, i))
           => result = Some(tree)

\* two different contexts with a node between them; the node is dropped,
\* both contexts are kept
C3_Witness ==
  /\ op = "smallestNode"
  /\ tree.tag = "context"
  /\ tree.child.tag = "node"
  /\ result # None
  /\ result[1].tag = "context"
  /\ result[1].child.tag = "context"
  /\ result[1].ctx = tree.ctx
  /\ result[1].child.ctx # tree.ctx
  /\ result[1].child.child.tag = "node"

-----------------------------------------------------------------------------
(* C4: smallestNodes on a node and on a hole *)

\* C4: smallestNodes on a node returns the results of its children joined in
\* child order when that list is not empty; otherwise the one-element list
\* of the node itself if p holds of its info and the empty list if not; on a
\* hole it returns the empty list.
C4_NodeJoinsChildren ==
  op = "smallestNodes" =>
    \A q \in Paths(tree) :
      LET t == Subtree(tree, q)
          kids == Kids(t)
          cat == Flatten([k \in 1..Len(kids) |-> smallestNodes(arg, kids[k])], 1)
      IN  /\ t.tag = "node" =>
               ListedAt(q) = IF cat # <<>> THEN cat
                             ELSE IF ApplyPred(arg, t.info) THEN <<t>> ELSE <<>>
          /\ t.tag = "hole" => ListedAt(q) = <<>>

\* two children with different results; the node matches and is not listed
C4_Witness ==
  /\ op = "smallestNodes"
  /\ tree.tag = "node"
  /\ ApplyPred(arg, tree.info)
  /\ LET kids == Kids(tree)
     IN  /\ Len(kids) >= 2
         /\ smallestNodes(arg, kids[1]) # <<>>
         /\ smallestNodes(arg, kids[2]) # <<>>
         /\ smallestNodes(arg, kids[1]) # smallestNodes(arg, kids[2])
         /\ result = smallestNodes(arg, kids[1]) \o smallestNodes(arg, kids[2])

-----------------------------------------------------------------------------
(* C5: smallestNodes on a context *)

\* C5 as the specification states it: smallestNodes on context ci t returns
\* exactly the list smallestNodes returns on t, and no element of a result
\* is wrapped in a context.
C5_ContextTransparent ==
  op = "smallestNodes" =>
    /\ tree.tag = "context" => result = smallestNodes(arg, tree.child)
    /\ \A k \in 1..Len(result) : result[k].tag # "context"

\* C5, amended: smallestNodes on context ci t returns the list smallestNodes
\* returns on t with every element r replaced by context ci r, in the same
\* order; so each element of a result is a node inside the contexts that lie
\* above it in the tree.
C5_ContextWrapsResults ==
  op = "smallestNodes" =>
    /\ \A q \in Paths(tree) :
         LET t == Subtree(tree, q) IN
         t.tag = "context" =>
           LET rs == smallestNodes(arg, t.child)
           IN  /\ Len(ListedAt(q)) = Len(rs)
               /\ \A k \in 1..Len(rs) : ListedAt(q)[k] = context(t.ctx, rs[k])
    /\ \A k \in 1..Len(result) :
         \E q \in NodePaths(tree) :
           result[k] = Rewrap(CtxsOnPath(tree, q), Subtree(tree, q))

\* a context over two results: both come back inside the context
C5_Witness ==
  /\ op = "smallestNodes"
  /\ tree.tag = "context"
  /\ Len(result) >= 2
  /\ result[1] # result[2]
  /\ \A k \in 1..Len(result) : result[k].tag = "context" /\ result[k].ctx = tree.ctx

-----------------------------------------------------------------------------
(* C6: smallestNodes lists the deepest matches *)

\* the nodes that satisfy p and have no proper descendant that does, in
\* document order
DeepestNodes(p, t) ==
  LET qs == SortPaths(DeepestPaths(p, t))
  IN  [k \in 1..Len(qs) |-> Subtree(t, qs[k])]

\* a root node that does not satisfy p can be replaced by its children
RootRemoval ==
  (tree.tag = "node" /\ ~ApplyPred(arg, tree.info)) =>
    LET kids == Kids(tree)
    IN  result = Flatten([k \in 1..Len(kids) |-> smallestNodes(arg, kids[k])], 1)

\* C6 as the specification states it: smallestNodes lists exactly the nodes
\* of the tree that satisfy p and have no proper descendant that does, each
\* once, in document order; and removing a root node that does not satisfy p
\* keeps the result.
C6_ListsDeepestNodes ==
  op = "smallestNodes" =>
    LET D == DeepestNodes(arg, tree)
    IN  /\ Len(result) = Len(D)
        /\ \A k \in 1..Len(result) : result[k] = D[k]
        /\ RootRemoval

\* C6, amended: the results of smallestNodes, each with its leading contexts
\* removed, are exactly the nodes of the tree that satisfy p and have no
\* proper descendant that does, each once, in document order (a result
\* keeps, as wrappers, the contexts that lie above its node); and removing
\* a root node that does not satisfy p keeps the result.
C6_ListsDeepestNodesInContexts ==
  op = "smallestNodes" =>
    LET D == DeepestNodes(arg, tree)
    IN  /\ Len(result) = Len(D)
        /\ \A k \in 1..Len(result) : stripContexts(result[k]) = D[k]
        /\ RootRemoval

\* a context above a matching node that has two matching children
C6_Witness ==
  /\ op = "smallestNodes"
  /\ tree.tag = "context"
  /\ \E q \in MatchPaths(arg, tree) : \E r \in MatchPaths(arg, tree) : ProperPrefix(q, r)
  /\ Len(result) >= 2
  /\ result[1] # result[2]

-----------------------------------------------------------------------------
(* C7: which match smallestNode? returns *)

\* the positions the result of smallestNode? can have come from
FoundPaths ==
  {q \in NodePaths(tree) : result[1] = Rewrap(CtxsOnPath(tree, q), Subtree(tree, q))}

\* C7 as the specification states it: no node earlier than the returned one
\* in a pre-order (a node before its children), leftmost-first traversal
\* satisfies p.
C7_FirstInPreOrder ==
  (op = "smallestNode" /\ result # None) =>
    \E q \in FoundPaths :
      \A r \in MatchPaths(arg, tree) : ~PreOrderBefore(r, q)

\* C7, amended: no node earlier than the returned one in a post-order
\* (children before their node), leftmost-first traversal satisfies p; an
\* ancestor of the returned node may satisfy p.
C7_FirstInPostOrder ==
  (op = "smallestNode" /\ result # None) =>
    \E q \in FoundPaths :
      /\ q \in MatchPaths(arg, tree)
      /\ \A r \in MatchPaths(arg, tree) : ~PostOrderBefore(r, q)

\* the returned node has an ancestor that satisfies p and a sibling after it
\* that does too
C7_Witness ==
  /\ op = "smallestNode"
  /\ result # None
  /\ \E q \in FoundPaths :
       /\ \E r \in MatchPaths(arg, tree) : ProperPrefix(r, q)
       /\ \E r \in MatchPaths(arg, tree) : PostOrderBefore(q, r) /\ ~IsPrefix(r, q)

-----------------------------------------------------------------------------
(* C8: what smallestNode? returns *)

\* C8: a result of smallestNode?, with its leading contexts removed, is a
\* node that occurs in the tree and whose info satisfies p; it is never a
\* hole or a bare context.
C8_ResultIsMatchingNode ==
  (op = "smallestNode" /\ result # None) =>
    LET n == stripContexts(result[1])
    IN  /\ n.tag = "node"
        /\ ApplyPred(arg, n.info)
        /\ \E q \in Paths(tree) : Subtree(tree, q) = n

\* found below a node whose own info does not satisfy p, inside a context
C8_Witness ==
  /\ op = "smallestNode"
  /\ result # None
  /\ result[1].tag = "context"
  /\ stripContexts(result[1]) # stripContexts(tree)
  /\ stripContexts(tree).tag = "node"
  /\ ~ApplyPred(arg, stripContexts(tree).info)

-----------------------------------------------------------------------------
(* C9: the intervals of goalsAt? *)

EntryPos(e) == e.info.stx.pos[1]

EntryTailPos(e) == e.info.stx.tailPos[1]

\* the entries whose interval, with the bounds lo and hi, holds the offset
Hits(ts, o, lo(_), hi(_)) == {i \in 1..Len(ts) : lo(i) <= o /\ o < hi(i)}

LeafOf(ts, H) ==
  IF H = {} THEN None
  ELSE LET i == CHOOSE i \in H : \A j \in H : i <= j
       IN  Some([ci |-> ts[i].ci, info |-> ts[i].info])

\* C9 as the specification states it: the i-th tactic leaf in sorted order
\* has the interval [tailPos(leaf_i), tailPos(leaf_i+1)), the last leaf the
\* empty interval at its tailPos; the leaf returned is the one whose
\* interval holds the offset.
C9_TailPosIntervals ==
  op = "goalsAt" =>
    LET ts == smallestTacticStates(tree)
        lo(i) == EntryTailPos(ts[i])
        hi(i) == IF i < Len(ts) THEN EntryTailPos(ts[i + 1]) ELSE EntryTailPos(ts[i])
    IN  result = LeafOf(ts, Hits(ts, arg.off, lo, hi))

\* C9, amended: the i-th tactic leaf in sorted order has the interval
\* [pos(leaf_i), pos(leaf_i+1)), the last leaf the interval
\* [pos(leaf_last), tailPos(leaf_last)); the leaf returned is the one whose
\* interval holds the offset (the first such), none when no interval does.
C9_PosIntervals ==
  op = "goalsAt" =>
    LET ts == smallestTacticStates(tree)
        lo(i) == EntryPos(ts[i])
        hi(i) == IF i < Len(ts) THEN EntryPos(ts[i + 1]) ELSE EntryTailPos(ts[i])
    IN  result = LeafOf(ts, Hits(ts, arg.off, lo, hi))

\* three leaves that the sort reorders; the offset falls to the middle one
C9_Witness ==
  /\ op = "goalsAt"
  /\ LET ts == smallestTacticStates(tree)
     IN  /\ Len(ts) = 3
         /\ ts # List_filterMap_smallestTacticStates(tacticLeaves(tree))
         /\ EntryPos(ts[1]) < EntryPos(ts[2])
         /\ EntryPos(ts[2]) < EntryPos(ts[3])
         /\ result = Some([ci |-> ts[2].ci, info |-> ts[2].info])

-----------------------------------------------------------------------------
(* C10: goalsAt? on leaves of increasing boundaries *)

\* the tactic leaves goalsAt? collects: the deepest matches of the
\* tactic-leaf predicate that lie under exactly one context, each with its
\* position in the tree, its range, and the (ci, info) returned for it
TacticLeaves(t) ==
  {[at |-> q,
    pos |-> Subtree(t, q).info.stx.pos[1],
    tailPos |-> Subtree(t, q).info.stx.tailPos[1],
    leaf |-> [ci |-> CtxsOnPath(t, q)[1], info |-> Subtree(t, q).info]] :
     q \in {q \in DeepestPaths(PredTacticLeaf, t) : Len(CtxsOnPath(t, q)) = 1}}

\* b_0 < ... < b_n: the leaves start at different offsets and each ends
\* after it starts
IncreasingBoundaries(L) ==
  /\ L # {}
  /\ \A l \in L :
       /\ l.pos < l.tailPos
       /\ \A m \in L : m # l => m.pos # l.pos

\* the boundary after the leaf l: the start of the next leaf, or the end of
\* l when l is the last
NextBoundary(L, l) ==
  LET later == {m.pos : m \in {m \in L : m.pos > l.pos}}
  IN  IF later = {} THEN l.tailPos
      ELSE CHOOSE b \in later : \A c \in later : b <= c

LastBoundary(L) == (CHOOSE l \in L : \A m \in L : m.pos <= l.pos).tailPos

\* two sibling tactic nodes of the ranges [0,1) and [1,3)
ExampleSiblings ==
  SiblingTree("ofTacticInfo",
              <<(<<Some(0), Some(1), TRUE>>), (<<Some(1), Some(3), TRUE>>)>>, TRUE)

ExampleSecond ==
  [ci |-> "c1", info |-> LeafInfo("ofTacticInfo", <<Some(1), Some(3), TRUE>>)]

-----------------------------------------------------------------------------
(* C11: the order of tactic leaves of equal pos *)

RECURSIVE StableInsert(_, _)
StableInsert(sorted, e) ==
  IF sorted = <<>> THEN <<e>>
  ELSE IF e.key < Head(sorted).key THEN <<e>> \o sorted
  ELSE <<Head(sorted)>> \o StableInsert(Tail(sorted), e)

\* the first k entries of xs by ascending key, equal keys in the order of xs
RECURSIVE StableSort(_, _)
StableSort(xs, k) ==
  IF k = 0 THEN <<>> ELSE StableInsert(StableSort(xs, k - 1), xs[k])

\* C11: the sort of the tactic leaves by pos is stable: two leaves of equal
\* pos are in the sorted array in the order they have in the result of
\* smallestNodes (document order).
C11_SortIsStable ==
  op = "smallestTacticStates" =>
    LET xs == List_filterMap_smallestTacticStates(tacticLeaves(tree))
    IN  result = StableSort(xs, Len(xs))

-----------------------------------------------------------------------------
(* C12: smallestInfo? on a node without a context *)

\* C12 as the specification states it: a root node with no context above
\* it, whose info satisfies p and below which nothing satisfies p, is the
\* result of smallestInfo?.
C12_BareRootIsResult ==
  (/\ op \in {"smallestInfo", "hoverableInfoAt"}
   /\ tree.tag = "node"
   /\ MatchPaths(C1_Pred, tree) = {<<>>})
    => (result # None /\ result[1].info = tree.info)

\* C12, amended: for a root node with no context above it, whose info
\* satisfies p and below which nothing satisfies p, smallestInfo? returns
\* none; the node is the result, with its context, when the tree is
\* context ci (node info _).
C12_BareRootIsNotRanked ==
  op \in {"smallestInfo", "hoverableInfoAt"} =>
    /\ (tree.tag = "node" /\ MatchPaths(C1_Pred, tree) = {<<>>}) => result = None
    /\ (tree.tag = "context" /\ tree.child.tag = "node"
        /\ MatchPaths(C1_Pred, tree) = {<<1>>})
         => result = Some([ci |-> tree.ctx, info |-> tree.child.info])

\* a term on [0,2) with one hole below it, asked at the offset 1
C12_Witness ==
  /\ op = "hoverableInfoAt"
  /\ arg.off = 1
  /\ tree.tag = "node"
  /\ Kids(tree) = <<hole>>
  /\ hoverableInfoAt_lambda1(1, tree.info)
  /\ result = None

-----------------------------------------------------------------------------
(* C13: candidates of smallestInfo? without a position *)

HasBothBounds(i) == Info_pos(i) # None /\ Info_tailPos(i) # None

\* C13: a candidate of smallestInfo? whose pos or tailPos is absent is
\* removed before the ranking (the query has no failure result to report
\* it with): its width is not taken from a default, and it is never the
\* result.
C13_MissingBoundNeverResult ==
  (op = "smallestInfo" /\ result # None) => HasBothBounds(result[1].info)

-----------------------------------------------------------------------------
(* Info.fmtHover?  The expressions, the type inference, the pretty printer  *)
(* and the doc-strings are those of the elaborator; fmtHover? calls them    *)
(* in MetaM, and every step may throw.  A computation returns its value or  *)
(* its error, and the calls made so far.                                    *)

\* the declarations; the expressions: a constant for each, and an application
Names == {"Nat.add", "foo"}

Exprs == Names \cup {"f x"}

Types == {"Nat -> Nat -> Nat", "Nat", "Bool"}

\* Expr.constName?
Expr_constName(e) == IF e \in Names THEN Some(e) ELSE None

TypeOf(e) ==
  CASE e = "Nat.add" -> "Nat -> Nat -> Nat"
    [] e = "foo" -> "Nat"
    [] OTHER -> "Bool"

DocOf(n) == IF n = "Nat.add" THEN "Addition of natural numbers." ELSE "The foo."

\* what the services do in one run: whether inferType throws, what ppExpr
\* throws on, which declarations have a doc-string
Worlds ==
  [inferFails : BOOLEAN, ppFails : SUBSET {"expr", "type"}, documented : SUBSET Names]

Ok(v, calls) == [ok |-> TRUE, val |-> v, calls |-> calls]

Error(e, calls) == [ok |-> FALSE, val |-> e, calls |-> calls]

\* Meta.inferType e
Meta_inferType(w, e, calls) ==
  LET cs == Append(calls, <<"inferType", e>>)
  IN  IF w.inferFails THEN Error("inferType", cs) ELSE Ok(TypeOf(e), cs)

\* Format.text s; Format.append is the concatenation.  In the texts ~ is
\* written for the backquote of the fence of a code block.
text(s) == <<(<<"text", s>>)>>

\* Meta.ppExpr e
Meta_ppExpr(w, e, calls) ==
  LET cs == Append(calls, <<"ppExpr", e>>)
      k == IF e \in Types THEN "type" ELSE "expr"
  IN  IF k \in w.ppFails THEN Error("ppExpr", cs) ELSE Ok(<<(<<"pp", e>>)>>, cs)

\* findDocString? n
findDocString(w, n, calls) ==
  LET cs == Append(calls, <<"findDocString", n>>)
  IN  IF n \in w.documented THEN Ok(Some(DocOf(n)), cs) ELSE Ok(None, cs)

\* ContextInfo.runMetaM ci lctx x: x starts in the context ci
ContextInfo_runMetaM(ci, lctx) == <<(<<"runMetaM", ci, lctx>>)>>

\* the text between the two parts of the code block
Meta_ppGoal_ppVars_closed_1 == text(" : ")

\* the empty text an interpolated format starts and ends with
Format_join_closed_1 == text("")

TermInfo(lctx, expr, stx) ==
  [tag |-> "ofTermInfo", lctx |-> lctx, expr |-> expr, stx |-> stx]

FieldInfo(name, lctx, val, stx) ==
  [tag |-> "ofFieldInfo", name |-> name, lctx |-> lctx, val |-> val, stx |-> stx]

OtherInfo(tag, stx) == [tag |-> tag, stx |-> stx]

\* fun hoverFmt _ => return some hoverFmt
fmtHover_lambda1(hoverFmt, calls) == Ok(Some(hoverFmt), calls)

\* the code block has the expression only
fmtHover_lambda2_noType(w, e, tp, calls) ==
  LET eFmt == Meta_ppExpr(w, e, calls) IN
  IF ~eFmt.ok THEN eFmt
  ELSE fmtHover_lambda1(text("~~~lean\n") \o eFmt.val \o text("\n~~~"), eFmt.calls)

\* the doc-string is looked up and left out
fmtHover_lambda2_noDoc(w, e, tp, calls) ==
  LET eFmt == Meta_ppExpr(w, e, calls) IN
  IF ~eFmt.ok THEN eFmt
  ELSE LET tpFmt == Meta_ppExpr(w, tp, eFmt.calls) IN
       IF ~tpFmt.ok THEN tpFmt
       ELSE LET hoverFmt == text("~~~lean\n") \o eFmt.val \o Meta_ppGoal_ppVars_closed_1
                            \o tpFmt.val \o text("\n~~~")
                n == Expr_constName(e)
            IN  IF n = None THEN fmtHover_lambda1(hoverFmt, tpFmt.calls)
                ELSE fmtHover_lambda1(hoverFmt, findDocString(w, n[1], tpFmt.calls).calls)

\* fun tp => do
\*   let eFmt <- Meta.ppExpr i.expr; let tpFmt <- Meta.ppExpr tp
\*   let hoverFmt := f!"~~~lean\n{eFmt} : {tpFmt}\n~~~"
\*   if let some n := i.expr.constName? then
\*     if let some doc <- findDocString? n then return f!"{hoverFmt}\n***\n{doc}"
\*   return hoverFmt
fmtHover_lambda2(w, e, tp, calls) ==
  LET eFmt == Meta_ppExpr(w, e, calls) IN
  IF ~eFmt.ok THEN eFmt
  ELSE LET tpFmt == Meta_ppExpr(w, tp, eFmt.calls) IN
       IF ~tpFmt.ok THEN tpFmt
       ELSE LET hoverFmt == text("~~~lean\n") \o eFmt.val \o Meta_ppGoal_ppVars_closed_1
                            \o tpFmt.val \o text("\n~~~")
                n == Expr_constName(e)
            IN  IF n = None THEN fmtHover_lambda1(hoverFmt, tpFmt.calls)
                ELSE LET doc == findDocString(w, n[1], tpFmt.calls) IN
                     IF doc.val = None THEN fmtHover_lambda1(hoverFmt, doc.calls)
                     ELSE Ok(Some(Format_join_closed_1 \o hoverFmt \o text("\n***\n")
                                  \o text(doc.val[1]) \o Format_join_closed_1),
                             doc.calls)

\* the doc-string of the field is looked up too
fmtHover_lambda3_withDoc(w, fi, tp, calls) ==
  LET tpFmt == Meta_ppExpr(w, tp, calls) IN
  IF ~tpFmt.ok THEN tpFmt
  ELSE Ok(Some(text("~~~lean\n") \o text(fi.name) \o Meta_ppGoal_ppVars_closed_1
               \o tpFmt.val \o text("\n~~~")),
          findDocString(w, fi.name, tpFmt.calls).calls)

\* fun tp => do
\*   let tpFmt <- Meta.ppExpr tp
\*   return f!"~~~lean\n{i.name} : {tpFmt}\n~~~"
fmtHover_lambda3(w, fi, tp, calls) ==
  LET tpFmt == Meta_ppExpr(w, tp, calls) IN
  IF ~tpFmt.ok THEN tpFmt
  ELSE Ok(Some(text("~~~lean\n") \o text(fi.name) \o Meta_ppGoal_ppVars_closed_1
               \o tpFmt.val \o text("\n~~~")),
          tpFmt.calls)

\* a failed inference is taken for nothing to render
fmtHover_lambda4_swallow(w, i, ci, lctx) ==
  LET calls == ContextInfo_runMetaM(ci, lctx) IN
  CASE i.tag = "ofTermInfo" ->
         LET tp == Meta_inferType(w, i.expr, calls) IN
         IF ~tp.ok THEN Ok(None, tp.calls)
         ELSE fmtHover_lambda2(w, i.expr, tp.val, tp.calls)
    [] i.tag = "ofFieldInfo" ->
         LET tp == Meta_inferType(w, i.val, calls) IN
         IF ~tp.ok THEN Ok(None, tp.calls)
         ELSE fmtHover_lambda3(w, i, tp.val, tp.calls)
    [] OTHER -> Ok(None, calls)

\* ci.runMetaM lctx do ...
fmtHover_lambda4(w, i, ci, lctx) ==
  LET calls == ContextInfo_runMetaM(ci, lctx) IN
  CASE i.tag = "ofTermInfo" ->
         LET tp == Meta_inferType(w, i.expr, calls) IN
         IF ~tp.ok THEN tp ELSE fmtHover_lambda2(w, i.expr, tp.val, tp.calls)
    [] i.tag = "ofFieldInfo" ->
         LET tp == Meta_inferType(w, i.val, calls) IN
         IF ~tp.ok THEN tp ELSE fmtHover_lambda3(w, i, tp.val, tp.calls)
    [] OTHER -> Ok(None, calls)

\* the other kinds are run in MetaM as well, and return none there
fmtHover_alwaysRun(w, ci, i) ==
  CASE i.tag = "ofTermInfo" -> fmtHover_lambda4(w, i, ci, i.lctx)
    [] i.tag = "ofFieldInfo" -> fmtHover_lambda4(w, i, ci, i.lctx)
    [] OTHER -> fmtHover_lambda4(w, i, ci, "none")

\* the other kinds are run in MetaM as well, and throw
fmtHover_throwing(w, ci, i) ==
  CASE i.tag = "ofTermInfo" -> fmtHover_lambda4(w, i, ci, i.lctx)
    [] i.tag = "ofFieldInfo" -> fmtHover_lambda4(w, i, ci, i.lctx)
    [] OTHER -> Error("fmtHover?", ContextInfo_runMetaM(ci, "none"))

\* Info.fmtHover? ci i
fmtHover(w, ci, i) ==
  CASE i.tag = "ofTermInfo" -> fmtHover_lambda4(w, i, ci, i.lctx)
    [] i.tag = "ofFieldInfo" -> fmtHover_lambda4(w, i, ci, i.lctx)
    [] OTHER -> Ok(None, <<>>)

-----------------------------------------------------------------------------
(* The functions on one Info, run on every Info of the bounds rather than   *)
(* on the infos of a tree.                                                  *)

\* syntax kinds: the hoverable ones and two others
StxKinds == hoverableKinds \cup {"tacticSeq", "app"}

Infos ==
  {MkInfo(tag, Stx(r[1], r[2], r[3], k), sorry) :
     tag \in InfoTags, r \in RangeOpts, k \in StxKinds, sorry \in BOOLEAN}

ArgInfo(i, o) == [kind |-> "info", set |-> {i}, off |-> o]

TheInfo == CHOOSE i \in arg.set : TRUE

InfoInit ==
  /\ tree = hole
  /\ op = "none"
  /\ arg = NoArg
  /\ result = None

\* the predicate of hoverableInfoAt? applied to one info
IsHoverable ==
  /\ op = "none"
  /\ \E i \in Infos, o \in Offsets :
       /\ op' = "isHoverable"
       /\ arg' = ArgInfo(i, o)
       /\ result' = Some(hoverableInfoAt_lambda1(o, i))
  /\ UNCHANGED tree

LCtxs == {"l1", "l2"}

HoverStx == Stx(Some(0), Some(1), TRUE, "ident")

\* the infos fmtHover? is called with
HoverInfos ==
  {TermInfo(l, e, HoverStx) : l \in LCtxs, e \in Exprs}
  \cup {FieldInfo(n, l, e, HoverStx) : n \in Names, l \in LCtxs, e \in Exprs}
  \cup {OtherInfo(tag, HoverStx) : tag \in {"ofTacticInfo", "ofMacroExpansionInfo"}}

ArgHover(w, ci, i) ==
  [kind |-> "hover", set |-> {i}, off |-> 0, ci |-> ci, world |-> w]

FmtHover ==
  /\ op = "none"
  /\ \E w \in Worlds, ci \in Ctxs, i \in HoverInfos :
       /\ op' = "fmtHover"
       /\ arg' = ArgHover(w, ci, i)
       /\ result' = fmtHover(w, ci, i)
  /\ UNCHANGED tree

InfoNext ==
  \/ IsHoverable
  \/ FmtHover
  \/ Return

InfoSpec == InfoInit /\ [][InfoNext]_vars

-----------------------------------------------------------------------------
(* C14: the predicate of hoverableInfoAt? *)

\* the position, when the syntax is original and has it
PosOf(i) == IF i.stx.original THEN i.stx.pos ELSE None

TailPosOf(i) == IF i.stx.original THEN i.stx.tailPos ELSE None

InRange(o, i) ==
  /\ PosOf(i) # None
  /\ TailPosOf(i) # None
  /\ PosOf(i)[1] <= o
  /\ o < TailPosOf(i)[1]

\* C14: the predicate is true exactly when pos and tailPos are both defined,
\* pos <= offset < tailPos, and the info is a field info, or a term info
\* whose expression is not a synthetic sorry and whose syntax kind is in the
\* list of hoverable kinds; so it is false outside the range or without a
\* bound, and false for tactic and macro expansion infos.
C14_IsHoverable ==
  op = "isHoverable" =>
    LET i == TheInfo
        o == arg.off
    IN  /\ result[1] <=>
             /\ InRange(o, i)
             /\ \/ i.tag = "ofFieldInfo"
                \/ /\ i.tag = "ofTermInfo"
                   /\ ~i.sorry
                   /\ i.stx.kind \in hoverableKinds
        /\ ~InRange(o, i) => ~result[1]
        /\ i.tag \in {"ofTacticInfo", "ofMacroExpansionInfo"} => ~result[1]

\* a term that is no sorry, of a hoverable kind, asked at the last offset of
\* its range
C14_Witness ==
  /\ op = "isHoverable"
  /\ TheInfo.tag = "ofTermInfo"
  /\ ~TheInfo.sorry
  /\ InRange(arg.off, TheInfo)
  /\ arg.off + 1 = TheInfo.stx.tailPos[1]
  /\ result = Some(TRUE)

-----------------------------------------------------------------------------
(* The panics a query runs into.  A panic prints its message and the query  *)
(* goes on with the default value, so the result alone does not show it.    *)

\* Option.get! of none
Option_get_panics(o) == o = None

\* lean_array_get out of the bounds
Array_get_panics(as, i) == ~(i < Len(as))

\* PersistentArray.get! out of the bounds
PersistentArray_get_panics(t, i) == ~(i < t.size)

RECURSIVE smallestNode_panics(_, _)
smallestNode_panics(p, t) ==
  CASE t.tag = "context" -> smallestNode_panics(p, t.child)
    [] t.tag = "node" ->
         LET cs == PersistentArray_toList(t.children)
             cs1 == PersistentArray_mapM(p, t.children)
             cs2 == PersistentArray_foldlM(cs1, PersistentArray_empty, 0)
         IN  \/ \E k \in 1..Len(cs) : smallestNode_panics(p, cs[k])
             \/ /\ ~PersistentArray_isEmpty(cs2)
                /\ PersistentArray_get_panics(cs2, 0)
    [] OTHER -> FALSE

List_filterMap_smallestInfo_panics(ts) ==
  \E k \in 1..Len(ts) :
    /\ ts[k].tag = "context"
    /\ ts[k].child.tag = "node"
    /\ \/ Option_get_panics(Info_tailPos(ts[k].child.info))
       \/ Option_get_panics(Info_pos(ts[k].child.info))

smallestInfo_panics(p, t) == List_filterMap_smallestInfo_panics(smallestNodes(p, t))

List_filterMap_smallestTacticStates_panics(ts) ==
  \E k \in 1..Len(ts) :
    /\ ts[k].tag = "context"
    /\ ts[k].child.tag = "node"
    /\ ts[k].child.info.tag = "ofTacticInfo"
    /\ Option_get_panics(Info_pos(ts[k].child.info))

Array_qpartition_loop_panics(hi, as, j) ==
  \E k \in j..(hi - 1) : Array_get_panics(as, k)

\* the elements are read before low and high are compared
RECURSIVE Array_qsort_sort_panics_unguarded(_, _, _)
Array_qsort_sort_panics_unguarded(as, low, high) ==
  \/ Array_get_panics(as, low)
  \/ Array_get_panics(as, high)
  \/ /\ low < high
     /\ Array_qpartition_loop_panics(high, as, low)

RECURSIVE Array_qsort_sort_panics(_, _, _)
Array_qsort_sort_panics(as, low, high) ==
  IF ~(low < high) THEN FALSE
  ELSE LET mid == (low + high) \div 2
           as1 == IF smallestTacticStates_lambda1(Array_get(as, mid), Array_get(as, low))
                  THEN Array_swap(as, low, mid) ELSE as
           as2 == IF smallestTacticStates_lambda1(Array_get(as1, high), Array_get(as1, low))
                  THEN Array_swap(as1, low, high) ELSE as1
           as3 == IF smallestTacticStates_lambda1(Array_get(as2, mid), Array_get(as2, high))
                  THEN Array_swap(as2, mid, high) ELSE as2
           pivot == Array_get(as3, high)
           r == Array_qpartition_loop(high, pivot, as3, low, low)
       IN  \/ Array_get_panics(as, mid)
           \/ Array_get_panics(as, low)
           \/ Array_get_panics(as, high)
           \/ Array_qpartition_loop_panics(high, as3, low)
           \/ /\ ~(high <= r[1])
              /\ \/ Array_qsort_sort_panics(r[2], low, r[1])
                 \/ Array_qsort_sort_panics(Array_qsort_sort(r[2], low, r[1]),
                                            r[1] + 1, high)

smallestTacticStates_panics(t) ==
  LET ts == List_filterMap_smallestTacticStates(tacticLeaves(t))
  IN  \/ List_filterMap_smallestTacticStates_panics(tacticLeaves(t))
      \/ Array_qsort_sort_panics(ts, 0, Nat_sub(Len(ts), 1))

goalsAt_extent_panics(ts, i) ==
  /\ ~(i + 1 < Len(ts))
  /\ Option_get_panics(Syntax_getTailPos(ts[i + 1].info.stx, FALSE))

goalsAt_panics(t, hoverPos) ==
  LET ts == smallestTacticStates(t)
      idx == Array_findIdx_loop(Array_mapIdx_goalsAt(ts), hoverPos, 0)
  IN  \/ smallestTacticStates_panics(t)
      \/ \E k \in 1..Len(ts) : goalsAt_extent_panics(ts, k - 1)
      \/ /\ idx # None
         /\ Array_get_panics(ts, idx[1])

-----------------------------------------------------------------------------
(* C15: no match is no error *)

NoMatch(p, t) == MatchPaths(p, t) = {}

\* C15: when no node satisfies the predicate, smallestNode? returns none,
\* smallestNodes the empty list and smallestInfo? none; when the tree has no
\* tactic node with both bounds, the sorted array is empty and goalsAt?
\* returns none; and none of them panics on the way, the sort of the empty
\* array included.
C15_NoMatchNoError ==
  /\ (op = "smallestNode" /\ NoMatch(arg, tree)) =>
       (result = None /\ ~smallestNode_panics(arg, tree))
  /\ (op = "smallestNodes" /\ NoMatch(arg, tree)) => result = <<>>
  /\ (op = "smallestInfo" /\ NoMatch(arg, tree)) =>
       (result = None /\ ~smallestInfo_panics(arg, tree))
  /\ (op = "hoverableInfoAt" /\ NoMatch(PredHoverable(arg.off), tree)) =>
       (result = None /\ ~smallestInfo_panics(PredHoverable(arg.off), tree))
  /\ (op = "smallestTacticStates" /\ NoMatch(PredTacticLeaf, tree)) =>
       (result = <<>> /\ ~smallestTacticStates_panics(tree))
  /\ (op = "goalsAt" /\ NoMatch(PredTacticLeaf, tree)) =>
       (result = None /\ ~goalsAt_panics(tree, arg.off))

\* goalsAt? on a tree of term nodes, one of them around the offset
C15_Witness ==
  /\ op = "goalsAt"
  /\ NoMatch(PredTacticLeaf, tree)
  /\ \E q \in NodePaths(tree) : InRange(arg.off, Subtree(tree, q).info)
  /\ result = None

-----------------------------------------------------------------------------
(* The position reads of a query: which function reads, and the value it    *)
(* passes for originalOnly.                                                 *)

Read(site, flag) == [site |-> site, originalOnly |-> flag]

\* Info.pos? and Info.tailPos? pass 1
Info_pos_reads == {Read("Info.pos?", TRUE)}

Info_tailPos_reads == {Read("Info.tailPos?", TRUE)}

\* the predicates read pos? and tailPos? of every node they are asked about
smallestNodes_reads(p, t) ==
  IF p.kind \in {"hoverable", "tacticLeaf"} /\ NodePaths(t) # {}
  THEN Info_pos_reads \cup Info_tailPos_reads
  ELSE {}

\* the width is tailPos?.get! - pos?.get!
smallestInfo_reads(p, t) ==
  smallestNodes_reads(p, t)
  \cup (IF List_filterMap_smallestInfo(smallestNodes(p, t)) # <<>>
        THEN Info_pos_reads \cup Info_tailPos_reads ELSE {})

\* the key of the sort is pos?.get!
smallestTacticStates_reads(t) ==
  smallestNodes_reads(PredTacticLeaf, t)
  \cup (IF List_filterMap_smallestTacticStates(tacticLeaves(t)) # <<>>
        THEN Info_pos_reads ELSE {})

\* the end of the last interval is ti.stx.getTailPos?, with 0 passed
goalsAt_extent_reads(ts, i) ==
  IF ~(i + 1 < Len(ts))
  THEN {Read("goalsAt?: Syntax.getTailPos?", FALSE)}
  ELSE {}

goalsAt_reads(t) ==
  LET ts == smallestTacticStates(t)
  IN  smallestTacticStates_reads(t)
      \cup UNION {goalsAt_extent_reads(ts, k - 1) : k \in 1..Len(ts)}

-----------------------------------------------------------------------------
(* C16: the reads of positions *)

\* C16: every read of a position that a query makes (in the predicate of
\* hoverableInfoAt?, in the width of smallestInfo?, in the predicate of the
\* tactic leaves, in the key of the sort and in the bounds of the intervals
\* of goalsAt?) passes originalOnly = true.
C16_ReadsAreCanonical ==
  /\ op = "smallestInfo" => \A r \in smallestInfo_reads(arg, tree) : r.originalOnly
  /\ op = "hoverableInfoAt" =>
       \A r \in smallestInfo_reads(PredHoverable(arg.off), tree) : r.originalOnly
  /\ op = "smallestTacticStates" =>
       \A r \in smallestTacticStates_reads(tree) : r.originalOnly
  /\ op = "goalsAt" => \A r \in goalsAt_reads(tree) : r.originalOnly

-----------------------------------------------------------------------------
(* C17 to C20: Info.fmtHover? *)

\* the texts of a format that are not empty, in their order
Pieces(fmt) == SelectSeq(fmt, LAMBDA p : p # <<"text", "">>)

Fences == {<<"text", "~~~lean\n">>, <<"text", "\n~~~">>}

\* a code block of two parts
CodeBlock(a, b) ==
  text("~~~lean\n") \o a \o Meta_ppGoal_ppVars_closed_1 \o b \o text("\n~~~")

pp(e) == <<(<<"pp", e>>)>>

\* the calls of one function among the calls made
CallsOf(calls, fn) == SelectSeq(calls, LAMBDA c : c[1] = fn)

HoverInfo == CHOOSE i \in arg.set : TRUE

\* C17 as stated: for a term info, a render that succeeds returns some
\* markdown that is one code block (opened by the fence with lean, closed by
\* the fence) of the pretty-printed expected type and the pretty-printed
\* inferred type of the expression.
C17_BlockOfTwoTypes ==
  (op = "fmtHover" /\ HoverInfo.tag = "ofTermInfo" /\ result.ok) =>
    /\ result.val # None
    /\ \E t \in Types :
         Pieces(result.val[1]) = CodeBlock(pp(t), pp(TypeOf(HoverInfo.expr)))

\* C17: for a term info, a render that succeeds returns some markdown that
\* starts with a code block (opened by the fence with lean, closed by the
\* fence) of the pretty-printed expression and the pretty-printed inferred
\* type of the expression, and has no other code block.
C17_BlockOfExprAndType ==
  (op = "fmtHover" /\ HoverInfo.tag = "ofTermInfo" /\ result.ok) =>
    /\ result.val # None
    /\ LET m == Pieces(result.val[1])
           e == HoverInfo.expr
       IN  /\ Len(m) >= 5
           /\ SubSeq(m, 1, 5) = CodeBlock(pp(e), pp(TypeOf(e)))
           /\ \A k \in 6..Len(m) : m[k] \notin Fences

\* a term rendered with success
C17_Witness ==
  /\ op = "fmtHover"
  /\ HoverInfo.tag = "ofTermInfo"
  /\ result.ok
  /\ result.val # None
  /\ Len(Pieces(result.val[1])) = 5

\* C18: for a term info, the doc-string is looked up only when the
\* expression is a constant, and by its name; when the lookup finds one, the
\* markdown is the code block, then the separator, then the doc-string; when
\* it finds none, or the expression is no constant, the markdown is the code
\* block alone.
C18_DocStringOfConstant ==
  (op = "fmtHover" /\ HoverInfo.tag = "ofTermInfo") =>
    LET e == HoverInfo.expr
        w == arg.world
        block == CodeBlock(pp(e), pp(TypeOf(e)))
        lookups == CallsOf(result.calls, "findDocString")
    IN  /\ lookups # <<>> => (e \in Names /\ lookups = <<(<<"findDocString", e>>)>>)
        /\ (result.ok /\ e \in Names /\ e \in w.documented) =>
             /\ lookups # <<>>
             /\ result.val # None
             /\ Pieces(result.val[1]) = block \o text("\n***\n") \o text(DocOf(e))
        /\ (result.ok /\ (e \notin Names \/ e \notin w.documented)) =>
             /\ result.val # None
             /\ Pieces(result.val[1]) = block

\* a constant with a doc-string, rendered with success
C18_Witness ==
  /\ op = "fmtHover"
  /\ HoverInfo.tag = "ofTermInfo"
  /\ HoverInfo.expr \in arg.world.documented
  /\ result.ok
  /\ Len(Pieces(result.val[1])) = 7

\* C19: for a field info, the type of the value of the field is the only
\* type inferred and the only thing pretty-printed, no doc-string is looked
\* up, and a render that succeeds returns some markdown that is one code
\* block of the name of the field and that type.
C19_FieldBlock ==
  (op = "fmtHover" /\ HoverInfo.tag = "ofFieldInfo") =>
    LET i == HoverInfo IN
    /\ CallsOf(result.calls, "inferType") = <<(<<"inferType", i.val>>)>>
    /\ CallsOf(result.calls, "findDocString") = <<>>
    /\ \A k \in 1..Len(result.calls) :
         result.calls[k][1] = "ppExpr" => result.calls[k][2] = TypeOf(i.val)
    /\ result.ok =>
         /\ result.val # None
         /\ CallsOf(result.calls, "ppExpr") = <<(<<"ppExpr", TypeOf(i.val)>>)>>
         /\ Pieces(result.val[1]) = CodeBlock(text(i.name), pp(TypeOf(i.val)))

\* a field whose value is a constant with a doc-string, rendered with success
C19_Witness ==
  /\ op = "fmtHover"
  /\ HoverInfo.tag = "ofFieldInfo"
  /\ HoverInfo.val \in arg.world.documented
  /\ HoverInfo.name \in arg.world.documented
  /\ result.ok
  /\ result.val # None

\* C20: for a tactic info and for a macro expansion info the render
\* succeeds and returns none, whatever the context and whatever the services
\* would do: no markdown, no error, and no call of a service.
C20_OtherKindsRenderNothing ==
  (op = "fmtHover" /\ HoverInfo.tag \notin {"ofTermInfo", "ofFieldInfo"}) =>
    /\ result.ok
    /\ result.val = None
    /\ result.calls = <<>>

\* a tactic info, in a run where type inference and the printer would throw
C20_Witness ==
  /\ op = "fmtHover"
  /\ HoverInfo.tag = "ofTacticInfo"
  /\ arg.world.inferFails
  /\ arg.world.ppFails = {"expr", "type"}
  /\ result.ok

-----------------------------------------------------------------------------
(* C21, C22: the errors and the calls of Info.fmtHover? *)

\* what the render pretty-prints on the way, in the order of the calls
Printed(i) ==
  IF i.tag = "ofTermInfo" THEN <<i.expr, TypeOf(i.expr)>>
  ELSE <<TypeOf(i.val)>>

PrintFails(w, e) == (IF e \in Types THEN "type" ELSE "expr") \in w.ppFails

Inferred(i) == IF i.tag = "ofTermInfo" THEN i.expr ELSE i.val

\* C21: when the type inference or a pretty-print throws in the render of a
\* term info or a field info, the render returns that error: never none and
\* never some markdown; a render that succeeds returns some markdown, so
\* error, none and some markdown stay apart; and after a failed inference
\* nothing is pretty-printed and no doc-string is looked up.
C21_ErrorsPropagate ==
  (op = "fmtHover" /\ HoverInfo.tag \in {"ofTermInfo", "ofFieldInfo"}) =>
    LET i == HoverInfo
        w == arg.world
        ppFailed == \E k \in 1..Len(Printed(i)) : PrintFails(w, Printed(i)[k])
    IN  /\ w.inferFails =>
             /\ ~result.ok
             /\ result.val = "inferType"
             /\ result.calls = <<(<<"runMetaM", arg.ci, i.lctx>>),
                                 (<<"inferType", Inferred(i)>>)>>
        /\ (~w.inferFails /\ ppFailed) =>
             /\ ~result.ok
             /\ result.val = "ppExpr"
             /\ CallsOf(result.calls, "findDocString") = <<>>
        /\ result.ok <=> (~w.inferFails /\ ~ppFailed)
        /\ result.ok =>
             /\ result.val # None
             /\ Len(Pieces(result.val[1])) >= 5

\* a term whose type inference throws
C21_Witness ==
  /\ op = "fmtHover"
  /\ HoverInfo.tag = "ofTermInfo"
  /\ arg.world.inferFails
  /\ arg.world.ppFails = {}
  /\ ~result.ok

ServiceCalls == {"runMetaM", "inferType", "ppExpr", "findDocString"}

\* C22 as stated: every render, of an info of any kind, runs the services
\* exactly once in the context given.
C22_OneRunEveryKind ==
  op = "fmtHover" =>
    CallsOf(result.calls, "runMetaM") = <<(<<"runMetaM", arg.ci, "none">>)>>
    \/ /\ HoverInfo.tag \in {"ofTermInfo", "ofFieldInfo"}
       /\ CallsOf(result.calls, "runMetaM") = <<(<<"runMetaM", arg.ci, HoverInfo.lctx>>)>>

\* C22: the render of a term info or of a field info runs the services
\* exactly once, in the context given and the local context of the info, and
\* infers one type there; the render of any other info runs nothing; and all
\* a render calls are the services, no search.
C22_OneRunForTermAndField ==
  op = "fmtHover" =>
    /\ HoverInfo.tag \in {"ofTermInfo", "ofFieldInfo"} =>
         /\ result.calls[1] = <<"runMetaM", arg.ci, HoverInfo.lctx>>
         /\ Len(CallsOf(result.calls, "runMetaM")) = 1
         /\ Len(CallsOf(result.calls, "inferType")) = 1
    /\ HoverInfo.tag \notin {"ofTermInfo", "ofFieldInfo"} => result.calls = <<>>
    /\ \A k \in 1..Len(result.calls) : result.calls[k][1] \in ServiceCalls

\* a field rendered in the second context
C22_Witness ==
  /\ op = "fmtHover"
  /\ HoverInfo.tag = "ofFieldInfo"
  /\ arg.ci = "c2"
  /\ result.ok
  /\ Len(result.calls) = 3

-----------------------------------------------------------------------------
(* The cells of a tree and who holds them.  A query is handed one reference *)
(* to the tree; S is the set of the cells that somebody else holds too.  A  *)
(* cell is the InfoTree at a path q, or, written q \o <<0>>, the            *)
(* PersistentArray of the children of the node at q.  lean_is_exclusive is  *)
(* true of a cell with one reference.                                       *)

SeqCell(q) == q \o <<0>>

Cells(t) == Paths(t) \cup {SeqCell(q) : q \in NodePaths(t)}

\* the references to a cell: the one of its parent (or of the caller, for
\* the root), and the one of another holder
RC(S, c) == IF c \in S THEN 2 ELSE 1

RECURSIVE smallestNode_writes(_, _, _, _, _)

\* PersistentArray.mapM (smallestNode? p) cs: the cell of the sequence is
\* overwritten when it is exclusive, and its elements are then handed on
\* with the references they have; otherwise the sequence is copied and every
\* element gets one more reference
PersistentArray_mapM_writes(p, t, q, rc, S) ==
  LET cs == PersistentArray_toList(t.children)
  IN  IF rc = 1
      THEN {SeqCell(q)}
           \cup UNION {smallestNode_writes(p, cs[k], q \o <<k>>, RC(S, q \o <<k>>), S) :
                         k \in 1..Len(cs)}
      ELSE UNION {smallestNode_writes(p, cs[k], q \o <<k>>, RC(S, q \o <<k>>) + 1, S) :
                    k \in 1..Len(cs)}

\* the cell of a context is used again whoever else holds it
smallestNode_writes_always(p, t, q, rc, S) ==
  CASE t.tag = "context" ->
         {q} \cup smallestNode_writes(p, t.child, q \o <<1>>, RC(S, q \o <<1>>), S)
    [] t.tag = "node" ->
         PersistentArray_mapM_writes(p, t, q, RC(S, SeqCell(q)) + 1, S)
    [] OTHER -> {}

\* the cells smallestNode? overwrites or frees: the cell of a context that
\* is exclusive is used again for the result (or freed when there is none);
\* one that is not is left alone, and its child gets one more reference.
\* The children of a node get one more reference while the node is held.
smallestNode_writes(p, t, q, rc, S) ==
  CASE t.tag = "context" ->
         IF rc = 1
         THEN {q} \cup smallestNode_writes(p, t.child, q \o <<1>>, RC(S, q \o <<1>>), S)
         ELSE smallestNode_writes(p, t.child, q \o <<1>>, RC(S, q \o <<1>>) + 1, S)
    [] t.tag = "node" ->
         PersistentArray_mapM_writes(p, t, q, RC(S, SeqCell(q)) + 1, S)
    [] OTHER -> {}

\* smallestNodes takes its own references to the fields of a cell and
\* overwrites no cell of the tree
smallestNodes_writes(p, t, q, rc, S) == {}

\* trees of fewer constructors, each with every set of cells held elsewhere
OwnedTrees == UNION {TreesOfSize(n) : n \in 1..(MaxSize - 1)}

ArgOwned(p, S) == [kind |-> "owned", set |-> S, off |-> 0, pred |-> p]

OwnedInit ==
  /\ tree \in OwnedTrees
  /\ op = "none"
  /\ arg = NoArg
  /\ result = None

SmallestNodeOwned ==
  /\ op = "none"
  /\ \E p \in Preds, S \in SUBSET Cells(tree) :
       /\ op' = "smallestNodeOwned"
       /\ arg' = ArgOwned(p, S)
       /\ result' = [val |-> smallestNode(p, tree),
                     writes |-> smallestNode_writes(p, tree, <<>>, RC(S, <<>>), S)]
  /\ UNCHANGED tree

SmallestNodesOwned ==
  /\ op = "none"
  /\ \E p \in Preds, S \in SUBSET Cells(tree) :
       /\ op' = "smallestNodesOwned"
       /\ arg' = ArgOwned(p, S)
       /\ result' = [val |-> smallestNodes(p, tree),
                     writes |-> smallestNodes_writes(p, tree, <<>>, RC(S, <<>>), S)]
  /\ UNCHANGED tree

OwnedNext ==
  \/ SmallestNodeOwned
  \/ SmallestNodesOwned
  \/ Return

OwnedSpec == OwnedInit /\ [][OwnedNext]_vars

-----------------------------------------------------------------------------
(* C23: the queries leave the tree alone *)

\* what the holder of the cell s sees includes the cell c
Reaches(s, c) ==
  IF s # <<>> /\ s[Len(s)] = 0
  THEN c = s \/ ProperPrefix(SubSeq(s, 1, Len(s) - 1), c)
  ELSE IsPrefix(s, c)

OwnedOps == {"smallestNodeOwned", "smallestNodesOwned"}

\* C23: no query changes the tree: the tree is the same after every step,
\* and a cell that a query overwrites or frees is seen by no other holder
\* (it is not held by anyone else, and neither is a cell above it), so every
\* other holder sees the tree it had; smallestNodes overwrites no cell.
C23_OnlyExclusiveCellsWritten ==
  op \in OwnedOps =>
    /\ \A c \in result.writes : \A s \in arg.set : ~Reaches(s, c)
    /\ result.writes \subseteq Cells(tree)
    /\ op = "smallestNodesOwned" => result.writes = {}
    /\ <<>> \in arg.set => result.writes = {}

\* a context that only the query holds, over a subtree that is held elsewhere
C23_Witness ==
  /\ op = "smallestNodeOwned"
  /\ tree.tag = "context"
  /\ result.writes = {<<>>}
  /\ <<1>> \in arg.set

-----------------------------------------------------------------------------
(* C25: the sort of smallestTacticStates *)

\* every call of Array.qsort.sort with low < high gets from the partition an
\* index mid with low <= mid < high, so that both calls it makes are on
\* shorter ranges
RECURSIVE Array_qsort_sort_shrinks(_, _, _)
Array_qsort_sort_shrinks(as, low, high) ==
  IF ~(low < high) THEN TRUE
  ELSE LET mid == (low + high) \div 2
           as1 == IF smallestTacticStates_lambda1(Array_get(as, mid), Array_get(as, low))
                  THEN Array_swap(as, low, mid) ELSE as
           as2 == IF smallestTacticStates_lambda1(Array_get(as1, high), Array_get(as1, low))
                  THEN Array_swap(as1, low, high) ELSE as1
           as3 == IF smallestTacticStates_lambda1(Array_get(as2, mid), Array_get(as2, high))
                  THEN Array_swap(as2, mid, high) ELSE as2
           r == Array_qpartition_loop(high, Array_get(as3, high), as3, low, low)
       IN  /\ low <= r[1]
           /\ r[1] < high
           /\ Array_qsort_sort_shrinks(r[2], low, r[1])
           /\ Array_qsort_sort_shrinks(Array_qsort_sort(r[2], low, r[1]), r[1] + 1, high)

\* how often the entry e is in the array
CountIn(as, e) == Cardinality({k \in 1..Len(as) : as[k] = e})

\* C25: smallestTacticStates ends, and its result is a permutation of the
\* tactic candidates of smallestNodes, those of the shape context ci (node
\* (tactic info) _), none lost and none twice, in an order of non-decreasing
\* pos, for arrays of every length from 0 and with equal pos values; in the
\* sort the index of the partition is below high whenever low < high, so
\* that each call it makes is on a shorter range.
C25_SortedPermutation ==
  op = "smallestTacticStates" =>
    LET L == TacticLeaves(tree)
        xs == List_filterMap_smallestTacticStates(tacticLeaves(tree))
    IN  /\ Len(result) = Cardinality(L)
        /\ \A k \in 1..Len(result) :
             /\ CountIn(result, result[k]) =
                  Cardinality({l \in L : /\ l.leaf.ci = result[k].ci
                                         /\ l.leaf.info = result[k].info
                                         /\ l.pos = result[k].key})
             /\ CountIn(result, result[k]) = CountIn(xs, result[k])
             /\ k < Len(result) => result[k].key <= result[k + 1].key
        /\ Array_qsort_sort_shrinks(xs, 0, Nat_sub(Len(xs), 1))

\* three candidates, two of the same pos, that the sort puts in another order
C25_Witness ==
  /\ op = "smallestTacticStates"
  /\ Len(result) = 3
  /\ result # List_filterMap_smallestTacticStates(tacticLeaves(tree))
  /\ \E k \in 1..2 : result[k].key = result[k + 1].key

-----------------------------------------------------------------------------
(* C26: the intervals of goalsAt? are disjoint *)

\* C26: with the sorted tactic leaves 1..n, goalsAt? finds the leaf i < n
\* exactly when pos_i <= offset < pos_i+1 and the leaf n exactly when
\* pos_n <= offset < tailPos_n; these intervals are disjoint, so at most one
\* leaf qualifies and the scan from the front finds the one a scan in any
\* order finds; an offset below pos_1 gives none; a leaf whose pos is that
\* of the next leaf is never found.
C26_DisjointIntervals ==
  op = "goalsAt" =>
    LET ts == smallestTacticStates(tree)
        n == Len(ts)
        lo(i) == EntryPos(ts[i])
        hi(i) == IF i < n THEN EntryPos(ts[i + 1]) ELSE EntryTailPos(ts[i])
        Q == Hits(ts, arg.off, lo, hi)
        idx == Array_findIdx_loop(Array_mapIdx_goalsAt(ts), arg.off, 0)
    IN  /\ Cardinality(Q) <= 1
        /\ \A i, j \in 1..n :
             i < j => \A o \in Offsets : ~(lo(i) <= o /\ o < hi(i) /\ lo(j) <= o /\ o < hi(j))
        /\ idx = None <=> Q = {}
        /\ idx # None => Q = {idx[1] + 1}
        /\ result = LeafOf(ts, Q)
        /\ (n > 0 /\ arg.off < lo(1)) => result = None
        /\ \A i \in 1..n : (i < n /\ lo(i) = lo(i + 1)) => idx # Some(i - 1)

\* three leaves, the first two of the same pos; the offset is found in the
\* second
C26_Witness ==
  /\ op = "goalsAt"
  /\ LET ts == smallestTacticStates(tree)
     IN  /\ Len(ts) = 3
         /\ EntryPos(ts[1]) = EntryPos(ts[2])
         /\ EntryPos(ts[2]) < EntryPos(ts[3])
         /\ arg.off = EntryPos(ts[1])
         /\ result = Some([ci |-> ts[2].ci, info |-> ts[2].info])

-----------------------------------------------------------------------------
(* C27: only context ci (node info _) is ranked *)

\* the deepest matches of p that lie under exactly one context, each as the
\* pair returned for it: the elements of smallestNodes of the shape
\* context ci (node info _)
ShapedPairs(p, t) ==
  {[ci |-> CtxsOnPath(t, q)[1], info |-> Subtree(t, q).info] :
     q \in {q \in DeepestPaths(p, t) : Len(CtxsOnPath(t, q)) = 1}}

\* C27: smallestInfo? and goalsAt? rank only the elements of smallestNodes
\* of the shape context ci (node info _); a match under no context or
\* under two or more is skipped.  smallestInfo? returns a result exactly
\* when some element has that shape, and the context returned is the one
\* wrapper of the node returned.
C27_OnlyOneContextRanked ==
  /\ op \in {"smallestInfo", "hoverableInfoAt"} =>
       LET S == ShapedPairs(C1_Pred, tree)
       IN  /\ result # None <=> S # {}
           /\ result # None => result[1] \in S
  /\ op = "goalsAt" =>
       (result # None => result[1] \in ShapedPairs(PredTacticLeaf, tree))
  /\ op = "smallestTacticStates" =>
       LET S == ShapedPairs(PredTacticLeaf, tree)
       IN  {[ci |-> result[k].ci, info |-> result[k].info] : k \in 1..Len(result)} = S

\* the one match lies under two nested contexts: smallestNodes lists it
\* and smallestInfo? returns none
C27_Witness ==
  /\ op = "smallestInfo"
  /\ result = None
  /\ LET ts == smallestNodes(arg, tree)
     IN  /\ Len(ts) = 1
         /\ ts[1].tag = "context"
         /\ ts[1].child.tag = "context"
         /\ ts[1].child.child.tag = "node"

-----------------------------------------------------------------------------
(* C28: smallestNode? is the head of smallestNodes *)

\* C28: smallestNode? p t is none exactly when smallestNodes p t is empty,
\* and is otherwise the first element of smallestNodes p t, contexts
\* included: the leftmost of the nodes that satisfy p and have no proper
\* descendant that satisfies p.
C28_FirstOfAll ==
  /\ op = "smallestNode" =>
       LET all == smallestNodes(arg, tree)
           D == SortPaths(DeepestPaths(arg, tree))
       IN  /\ result = None <=> all = <<>>
           /\ all # <<>> => result = Some(Head(all))
           /\ result = None <=> D = <<>>
           /\ D # <<>> =>
                result = Some(Rewrap(CtxsOnPath(tree, D[1]), Subtree(tree, D[1])))
  /\ op = "smallestNodes" =>
       LET first == smallestNode(arg, tree)
       IN  /\ first = None <=> result = <<>>
           /\ result # <<>> => first = Some(Head(result))

\* a matching node with a matching ancestor and a matching node to its
\* right, under a context: the first of two elements is returned
C28_Witness ==
  /\ op = "smallestNode"
  /\ result # None
  /\ result[1].tag = "context"
  /\ LET all == smallestNodes(arg, tree)
     IN  /\ Len(all) >= 2
         /\ result[1] = all[1]
  /\ \E q \in DeepestPaths(arg, tree) :
       \E r \in MatchPaths(arg, tree) : ProperPrefix(r, q)

-----------------------------------------------------------------------------
(* C29: the get! of a position never panics under the two predicates *)

\* C29: the predicate of hoverableInfoAt? and the predicate of the tactic
\* leaves hold only of an info whose pos? and tailPos? are both there, so
\* the get! of the width in smallestInfo? under hoverableInfoAt? and the
\* get! of the sort key in smallestTacticStates never panic, on any tree
\* and at any offset.
C29_NoPanicUnderBoundedPredicates ==
  /\ op = "hoverableInfoAt" =>
       /\ \A q \in NodePaths(tree) :
            hoverableInfoAt_lambda1(arg.off, Subtree(tree, q).info)
              => HasBothBounds(Subtree(tree, q).info)
       /\ ~List_filterMap_smallestInfo_panics(smallestNodes(PredHoverable(arg.off), tree))
  /\ op \in {"smallestTacticStates", "goalsAt"} =>
       /\ \A q \in NodePaths(tree) :
            tacticLeaves_lambda1(Subtree(tree, q).info)
              => HasBothBounds(Subtree(tree, q).info)
       /\ ~List_filterMap_smallestTacticStates_panics(tacticLeaves(tree))

\* a term without a start next to the term that is found, each under a
\* context of its own
C29_Witness ==
  /\ op = "hoverableInfoAt"
  /\ result # None
  /\ \E q \in NodePaths(tree) :
       /\ Subtree(tree, q).info.tag = "ofTermInfo"
       /\ Info_pos(Subtree(tree, q).info) = None
       /\ Len(CtxsOnPath(tree, q)) = 1

-----------------------------------------------------------------------------
(* The PersistentArray functions on the children of a wide node: more      *)
(* children than one trie leaf holds, so that the children are split        *)
(* between the root and the tail.                                           *)

\* the k-th child (from 0): a term, a tactic or a hole in turn, each at the
\* offset k
WideKid(k) ==
  CASE k % 3 = 0 -> node(MkInfo("ofTermInfo", Stx(Some(k), Some(k + 1), TRUE, "ident"), FALSE),
                         PersistentArray_empty)
    [] k % 3 = 1 -> node(MkInfo("ofTacticInfo", Stx(Some(k), Some(k + 1), TRUE, "tacticSeq"), FALSE),
                         PersistentArray_empty)
    [] OTHER -> hole

WidePreds == {PredAll, PredTacticLeaf}

\* a node without children yet
WideInit ==
  /\ tree = node(RootInfo("ofTermInfo"), PersistentArray_empty)
  /\ op = "none"
  /\ arg = NoArg
  /\ result = None

\* the elaborator pushes the next child
PushChild ==
  /\ op = "none"
  /\ tree.children.size < MaxLen
  /\ tree' = [tree EXCEPT !.children =
                PersistentArray_push(tree.children, WideKid(tree.children.size))]
  /\ UNCHANGED <<op, arg, result>>

\* let cs := cs.map (smallestNode? p)
MapChildren ==
  /\ op = "none"
  /\ \E p \in WidePreds :
       /\ op' = "mapM"
       /\ arg' = p
       /\ result' = PersistentArray_mapM(p, tree.children)
  /\ UNCHANGED tree

\* let cs := cs.foldl (init := empty) fun cs c? => ...
FoldChildren ==
  /\ op = "none"
  /\ \E p \in WidePreds :
       /\ op' = "foldlM"
       /\ arg' = p
       /\ result' = PersistentArray_foldlM(PersistentArray_mapM(p, tree.children),
                                           PersistentArray_empty, 0)
  /\ UNCHANGED tree

\* cs.get! i, for i < cs.size
GetChild ==
  /\ op = "none"
  /\ \E i \in 0..(tree.children.size - 1) :
       /\ op' = "get"
       /\ arg' = ArgOffset(i)
       /\ result' = PersistentArray_get(tree.children, i)
  /\ UNCHANGED tree

WideNext ==
  \/ PushChild
  \/ MapChildren
  \/ FoldChildren
  \/ GetChild
  \/ Return

WideSpec == WideInit /\ [][WideNext]_vars

-----------------------------------------------------------------------------
(* C30: fold, get! and map of a PersistentArray *)

\* what f gives for each child, in the order the children were pushed
MappedKids(p, n) == [k \in 1..n |-> smallestNode(p, WideKid(k - 1))]

\* C30: for children of any number, split between the root and the tail,
\* the fold from index 0 visits every child once in the order of the
\* indices, the root before the tail (it pushes what it visits, so the
\* result lists the visits); get! i for i < size is the i-th child of that
\* order; map gives an array of the same size and the same split whose i-th
\* element is f of the i-th child.
C30_FoldGetMapInOrder ==
  LET n == tree.children.size IN
  /\ op = "foldlM" =>
       /\ PersistentArray_toList(result) = SelectSeq(MappedKids(arg, n), isSome)
       /\ arg = PredAll =>
            [k \in 1..result.size |-> PersistentArray_get(result, k - 1)[1].info.stx.pos[1]]
              = SelectSeq([k \in 1..n |-> k - 1], LAMBDA k : k % 3 # 2)
  /\ op = "get" => result = WideKid(arg.off)
  /\ op = "mapM" =>
       /\ result.size = n
       /\ PersistentArray_toList(result) = MappedKids(arg, n)
       /\ Len(result.tail) = Len(tree.children.tail)
       /\ \A i \in 0..(n - 1) :
            PersistentArray_get(result, i) = smallestNode(arg, WideKid(i))

\* two full trie leaves in the root and two children in the tail: the fold
\* has pushed the children of the root before those of the tail
C30_Witness ==
  /\ op = "foldlM"
  /\ arg = PredAll
  /\ Len(tree.children.root.cs) = 2
  /\ Len(tree.children.tail) = 2
  /\ result.size > Branching
  /\ PersistentArray_get(result, 0) = Some(WideKid(0))
  /\ PersistentArray_get(result, result.size - 1) = Some(WideKid(MaxLen - 2))

-----------------------------------------------------------------------------
(* Queries that run on one tree at the same time.  Every query is handed a  *)
(* reference of its own to the root.  A query goes down the contexts above  *)
(* the first node: it asks whether the cell is exclusive; an exclusive cell  *)
(* is taken (its fields are moved out, the cell is used again for the       *)
(* result on the way back); of a cell that is not, the fields are read,     *)
(* the child gets one more reference and the reference to the cell is given *)
(* back.  Each of these is a step of its own, and the steps of the queries  *)
(* interleave.  The search below the first node is one step: it takes       *)
(* references of its own to all it reads.                                   *)

\* lean_is_exclusive holds of every cell
lean_is_exclusive_always(rc) == TRUE

\* lean_is_exclusive(o): o has one reference
lean_is_exclusive(rc) == rc = 1

\* the contexts above the first node, and that node (or hole)
RECURSIVE ChainCells(_, _)
ChainCells(t, q) ==
  IF t.tag = "context" THEN {q} \cup ChainCells(t.child, q \o <<1>>) ELSE {q}

\* lean_dec: one reference less; a cell without references is freed, and
\* what it refers to loses a reference in turn
RECURSIVE lean_dec(_, _)
lean_dec(h, c) ==
  LET h1 == [h EXCEPT !.rc[c] = h.rc[c] - 1]
  IN  IF h1.rc[c] > 0 THEN h1
      ELSE LET h2 == [h1 EXCEPT !.freed = h1.freed \cup {c}]
           IN  IF Subtree(tree, c).tag = "context" THEN lean_dec(h2, c \o <<1>>) ELSE h2

\* a query that has not started: it holds the root
NewQuery ==
  [pc |-> "check", at |-> <<>>, owned |-> <<>>, mine |-> {}, ctxs |-> <<>>,
   val |-> None, bad |-> FALSE]

\* what lies below the contexts: a hole, a node alone, a node above a
\* context
ConcNodes ==
  LET term == MkInfo("ofTermInfo", Stx(Some(0), Some(2), TRUE, "ident"), FALSE)
      tactic == MkInfo("ofTacticInfo", Stx(Some(0), Some(2), TRUE, "tacticSeq"), FALSE)
      leaf == node(tactic, PersistentArray_empty)
  IN  {hole, leaf, node(term, toPArray(<<context("c2", leaf)>>))}

RECURSIVE UnderContexts(_, _)
UnderContexts(k, n) ==
  IF k = 0 THEN n ELSE context(LeafCtx(k), UnderContexts(k - 1, n))

\* up to MaxSize - 2 contexts above the first node
ConcTrees == {UnderContexts(k, n) : k \in 0..(MaxSize - 2), n \in ConcNodes}

\* a predicate that holds of every info and one that holds of none
ConcPreds == {PredAll, PredSet({})}

ArgConc(ps, S) == [kind |-> "conc", set |-> S, off |-> 0, preds |-> ps]

\* the predicates of the queries; the queries are alike, so those with the
\* predicate that holds of nothing are taken to be the last ones
ConcPredSeqs ==
  {ps \in [1..MaxQueries -> ConcPreds] :
     \A i \in 1..(MaxQueries - 1) : ps[i] = PredSet({}) => ps[i + 1] = PredSet({})}

\* nobody else holds a cell, or somebody holds one
ConcHeld(t) == {{}} \cup {{c} : c \in ChainCells(t, <<>>)}

\* the queries hold the root; the cells of S are held by somebody else too
ConcInit ==
  /\ tree \in ConcTrees
  /\ op = "conc"
  /\ \E ps \in ConcPredSeqs, S \in ConcHeld(tree) :
       /\ arg = ArgConc(ps, S)
       /\ result = [rc |-> [c \in ChainCells(tree, <<>>) |->
                              IF c = <<>> THEN MaxQueries + (RC(S, c) - 1) ELSE RC(S, c)],
                    written |-> {},
                    freed |-> {},
                    qs |-> [i \in 1..MaxQueries |-> NewQuery]]

\* the cell has been overwritten or freed
Clobbered(c) == c \in result.written \cup result.freed

\* switch (lean_obj_tag(x_2)), and x_3 = !lean_is_exclusive(x_2)
Check(i) ==
  LET q == result.qs[i]
      c == q.at
      t == Subtree(tree, c)
      q1 == [q EXCEPT !.bad = q.bad \/ Clobbered(c)]
  IN  /\ op = "conc"
      /\ q.pc = "check"
      /\ CASE t.tag = "context" ->
                IF lean_is_exclusive(result.rc[c])
                THEN result' = [result EXCEPT !.qs[i] =
                                  [q1 EXCEPT !.owned = Append(q.owned, c),
                                             !.mine = q.mine \cup {c},
                                             !.ctxs = Append(q.ctxs, t.ctx),
                                             !.at = c \o <<1>>]]
                ELSE result' = [result EXCEPT !.qs[i] = [q1 EXCEPT !.pc = "take"]]
           [] t.tag = "node" ->
                result' = [result EXCEPT !.qs[i] = [q1 EXCEPT !.pc = "node"]]
           [] OTHER ->
                result' = [lean_dec(result, c) EXCEPT !.qs[i] = [q1 EXCEPT !.pc = "unwind"]]
      /\ UNCHANGED <<tree, op, arg>>

\* x_12 = lean_ctor_get(x_2, 0); x_13 = lean_ctor_get(x_2, 1);
\* lean_inc(x_13); lean_inc(x_12)
Take(i) ==
  LET q == result.qs[i]
      c == q.at
  IN  /\ op = "conc"
      /\ q.pc = "take"
      /\ result' = [result EXCEPT
                      !.rc[c \o <<1>>] = result.rc[c \o <<1>>] + 1,
                      !.qs[i] = [q EXCEPT !.bad = q.bad \/ Clobbered(c),
                                          !.ctxs = Append(q.ctxs, Subtree(tree, c).ctx),
                                          !.pc = "release"]]
      /\ UNCHANGED <<tree, op, arg>>

\* lean_dec(x_2), and the call on the child
Release(i) ==
  LET q == result.qs[i]
      c == q.at
  IN  /\ op = "conc"
      /\ q.pc = "release"
      /\ result' = [lean_dec(result, c) EXCEPT
                      !.qs[i] = [q EXCEPT !.at = c \o <<1>>, !.pc = "check"]]
      /\ UNCHANGED <<tree, op, arg>>

\* case 1 of smallestNode?: the search below a node.  It reads the cells
\* below the node; the node is given back unless it is the result.
NodeStep(i) ==
  LET q == result.qs[i]
      c == q.at
      t == Subtree(tree, c)
      p == arg.preds[i]
      below == {d \in Cells(tree) : IsPrefix(c, d)}
      v == smallestNode(p, t)
      w == smallestNode_writes(p, t, c, result.rc[c], arg.set)
      h == IF v = Some(t) THEN result ELSE lean_dec(result, c)
  IN  /\ op = "conc"
      /\ q.pc = "node"
      /\ result' = [h EXCEPT
                      !.written = h.written \cup w,
                      !.qs[i] = [q EXCEPT !.bad = q.bad \/ (\E d \in below : Clobbered(d)),
                                          !.val = v,
                                          !.pc = "unwind"]]
      /\ UNCHANGED <<tree, op, arg>>

\* the way back through the cells taken: lean_free_object(x_2) when there
\* is no result, lean_ctor_set(x_2, 1, x_9) when there is one; then the
\* result is returned
Unwind(i) ==
  LET q == result.qs[i]
      n == Len(q.owned)
  IN  /\ op = "conc"
      /\ q.pc = "unwind"
      /\ IF n = 0
         THEN result' = [result EXCEPT !.qs[i] = [q EXCEPT !.pc = "done"]]
         ELSE LET c == q.owned[n]
                  q1 == [q EXCEPT !.owned = SubSeq(q.owned, 1, n - 1)]
              IN  IF q.val = None
                  THEN result' = [result EXCEPT !.freed = result.freed \cup {c},
                                                !.rc[c] = 0,
                                                !.qs[i] = q1]
                  ELSE result' = [result EXCEPT !.written = result.written \cup {c},
                                                !.qs[i] = q1]
      /\ UNCHANGED <<tree, op, arg>>

\* the query is given up: it takes no step any more
Abandon(i) ==
  LET q == result.qs[i]
  IN  /\ op = "conc"
      /\ q.pc \notin {"done", "abandoned"}
      /\ result' = [result EXCEPT !.qs[i] = [q EXCEPT !.pc = "abandoned"]]
      /\ UNCHANGED <<tree, op, arg>>

ConcNext ==
  \E i \in 1..MaxQueries :
    \/ Check(i)
    \/ Take(i)
    \/ Release(i)
    \/ NodeStep(i)
    \/ Unwind(i)
    \/ Abandon(i)

ConcSpec == ConcInit /\ [][ConcNext]_vars

-----------------------------------------------------------------------------
(* C24: queries at the same time *)

\* what a finished query returns
Returned(q) == IF q.val = None THEN None ELSE Some(Rewrap(q.ctxs, q.val[1]))

\* the cells a query reads at its next step
ReadsNext(q) ==
  CASE q.pc \in {"check", "take"} -> {q.at}
    [] q.pc = "node" -> {d \in Cells(tree) : IsPrefix(q.at, d)}
    [] OTHER -> {}

\* C24: of queries that run on one tree at the same time, in every order of
\* their steps, each returns what it returns alone; no query reads a cell
\* that another one has taken to overwrite, or one that is overwritten or
\* freed; a query that is given up at any step changes nothing of this, and
\* what the other holders of the tree see is never overwritten.
C24_ConcurrentQueriesAgree ==
  op = "conc" =>
    /\ \A i \in 1..MaxQueries :
         LET q == result.qs[i] IN
         /\ ~q.bad
         /\ q.pc = "done" => Returned(q) = smallestNode(arg.preds[i], tree)
         /\ \A j \in 1..MaxQueries \ {i} : ReadsNext(q) \cap result.qs[j].mine = {}
         /\ \A d \in ReadsNext(q) : ~Clobbered(d)
    /\ \A c \in result.written \cup result.freed : \A s \in arg.set : ~Reaches(s, c)

\* one query has taken the root and overwritten it after the other had
\* read it and gone on; both are done, and a third holder keeps the node
C24_Witness ==
  /\ op = "conc"
  /\ tree.tag = "context"
  /\ <<>> \in result.written
  /\ result.qs[1].pc = "done"
  /\ result.qs[2].pc = "done"
  /\ result.qs[1].mine = {}
  /\ <<>> \in result.qs[2].mine
  /\ Returned(result.qs[1]) # None

====
